---- MODULE Spec2Model ----
(***************************************************************************)
(* Model of the handle-table and memory-access runtime of the wasmer       *)
(* bindings generators.                                                    *)
(*                                                                         *)
(*   - Slab: the handle table emitted by                                   *)
(*     crates/gen-wasmer-py/src/dependencies.rs (class Slab).              *)
(*   - The closures crates/gen-wasmer/src/lib.rs generates around the      *)
(*     handle tables: imported functions and resource_drop over the host's *)
(*     tables, the canonical_abi functions and drop_{name} over the index  *)
(*     slab and the resource slab of a guest-exported resource.            *)
(*   - The bounds-checked memory helpers of dependencies.rs (_load,        *)
(*     _store, string and list copies) and the load/store the Rust         *)
(*     generator emits.                                                    *)
(*                                                                         *)
(*   - The code generator of crates/gen-wasmer/src/lib.rs itself: the      *)
(*     conversions it emits, the emitter's blocks and memory sources, the  *)
(*     closures and methods of an interface and their requirements.        *)
(*                                                                         *)
(* SlabSpec runs the slab alone, HandleSpec the generated closures,        *)
(* MemSpec the memory helpers, ConvSpec and ListSpec the conversions,      *)
(* LayoutSpec the layout of types and signatures, DepsSpec the imports of  *)
(* the Python generator, GenSpec, BranchSpec, ClosureSpec and              *)
(* InterfaceSpec the generator.                                            *)
(***************************************************************************)
EXTENDS Integers, Sequences, FiniteSets, TLC

\* ------------------------------------------------------------------ bounds

\* Largest number of slots a slab is allowed to grow to in a run.
MaxLen == 2

\* Payloads stored in a handle table.
Values == {"x", "y"}

\* Optional[T]: Python's None (SlabEntry.val of a free slot) and a present
\* value.
None == <<>>
Some(v) == <<v>>

\* Indices handed to get/remove: every slot, one past the end, and the
\* negative integers a signed 32-bit wire value can carry.
IdxRange == (0 - (MaxLen + 1)) .. (MaxLen + 1)

\* Handles as the Rust closures receive them (u32): every slot and one past
\* the end.
U32Range == 0 .. MaxLen

VARIABLES
    slab,       \* the handle table: [list |-> Seq(SlabEntry), head |-> Int]
    dropped,    \* value handed to the host destructor by the last operation, or None
    live,       \* history: indices returned by insert and not removed since
    freed,      \* history: indices freed and not yet reused, most recent first
    last,       \* the last operation and its outcome
    pre,        \* the tables and free history before the last operation
    in_import,  \* Wasmer.in_import: the bindings implement guest imports
    pc,         \* who runs: "guest", "host", or a phase of a host closure
    frame,      \* the call in flight, NoFrame when there is none
    borrow,     \* live RefMut borrows of `data_mut.tables`
    panicked,   \* a borrow_mut found the tables already borrowed
    index_slab,     \* IndexSlab of a guest-exported resource
    resource_slab,  \* ResourceSlab of a guest-exported resource
    host_handles,   \* owned handles the host holds, per resource index
    next_wasm,      \* the next representation value a resource_new passes
    dtor_calls,     \* history: destructor calls per representation value
    mem,            \* the guest's linear memory, byte by byte
    touched,        \* history: the bytes the last memory operation accessed
    conv,           \* a value crossing the boundary: its type, form and stage
    gen,            \* the generator: options, the function at hand, buffers
    layout,         \* a type of the interface, and a function signed over it
    deps            \* Dependencies.pyimports of the Python generator

slabVars == <<slab, dropped, live, freed, last, pre>>
callVars == <<in_import, pc, frame, borrow, panicked>>
exportVars == <<index_slab, resource_slab, host_handles, next_wasm, dtor_calls>>
memVars == <<mem, touched>>
genVars == <<conv, gen, layout, deps>>
vars == <<slabVars, callVars, exportVars, memVars, genVars>>

\* No value is crossing and the generator has not been started.
NoConv == [stage |-> "idle"]
NoGen == [stage |-> "idle"]
NoLayout == [stage |-> "idle"]
NoDeps == [stage |-> "idle"]
IdleGen ==
    /\ conv = NoConv
    /\ gen = NoGen
    /\ layout = NoLayout
    /\ deps = NoDeps

\* ------------------------------------------------------------ Slab (Python)

SlabEntry(next, val) == [next |-> next, val |-> val]

\* Slab.__init__
SlabNew == [list |-> <<>>, head |-> 0]

Ok(v) == [ok |-> TRUE, val |-> Some(v), err |-> "none"]
Err(e) == [ok |-> FALSE, val |-> None, err |-> e]

HandleInvalid == "IndexError: handle index not valid"
ListIndexError == "IndexError: list index out of range"
AssertionError == "AssertionError"

\* Both messages are raised as Python's IndexError.
IndexErrors == {HandleInvalid, ListIndexError}

\* Python list indexing: a negative index counts from the end.
PyInRange(n, idx) == idx < n /\ idx >= 0 - n
PyIndex(n, idx) == IF idx < 0 THEN n + idx ELSE idx

\* self.list[idx] as a 1-based position of the TLA+ sequence.
SlotPos(s, idx) == PyIndex(Len(s.list), idx) + 1

\* Slab.get
SlabGet(s, idx) ==
    LET n == Len(s.list) IN
    IF idx >= n THEN Err(HandleInvalid)
    ELSE IF ~PyInRange(n, idx) THEN Err(ListIndexError)
    ELSE LET slot == s.list[SlotPos(s, idx)] IN
         IF slot.next = -1
         THEN IF slot.val = None THEN Err(AssertionError) ELSE Ok(slot.val[1])
         ELSE Err(HandleInvalid)

\* Slab.remove without `self.head = idx`.
SlabRemoveKeepHead(s, idx) ==
    LET r == SlabGet(s, idx) IN
    IF ~r.ok THEN [slab |-> s, ok |-> FALSE, val |-> None, err |-> r.err]
    ELSE [slab |-> [list |-> [s.list EXCEPT ![SlotPos(s, idx)] =
                                  SlabEntry(s.head, None)],
                    head |-> s.head],
          ok |-> TRUE, val |-> r.val, err |-> "none"]

\* Slab.remove freeing the slot before get has validated idx.
SlabRemoveEager(s, idx) ==
    LET r == SlabGet(s, idx)
        n == Len(s.list)
        t == IF PyInRange(n, idx)
             THEN [list |-> [s.list EXCEPT ![SlotPos(s, idx)] =
                                 SlabEntry(s.head, None)],
                   head |-> idx]
             ELSE s
    IN  IF ~r.ok THEN [slab |-> t, ok |-> FALSE, val |-> None, err |-> r.err]
        ELSE [slab |-> t, ok |-> TRUE, val |-> r.val, err |-> "none"]

\* Slab.remove
SlabRemove(s, idx) ==
    LET r == SlabGet(s, idx) IN
    IF ~r.ok THEN [slab |-> s, ok |-> FALSE, val |-> None, err |-> r.err]
    ELSE [slab |-> [list |-> [s.list EXCEPT ![SlotPos(s, idx)] =
                                  SlabEntry(s.head, None)],
                    head |-> idx],
          ok |-> TRUE, val |-> r.val, err |-> "none"]

\* Slab.insert storing into the last slot instead of slot `ret`.
SlabInsertLastSlot(s, v) ==
    LET n == Len(s.list)
        grown == IF s.head >= n
                 THEN Append(s.list, SlabEntry(n + 1, None))
                 ELSE s.list
        g == [list |-> grown, head |-> s.head]
        ret == s.head
    IN  IF ~PyInRange(Len(grown), ret)
        THEN [slab |-> g, ok |-> FALSE, ret |-> ret, err |-> ListIndexError]
        ELSE [slab |-> [list |-> [grown EXCEPT ![Len(grown)] = SlabEntry(-1, Some(v))],
                        head |-> grown[SlotPos(g, ret)].next],
              ok |-> TRUE, ret |-> ret, err |-> "none"]

\* Slab.insert storing `val` only into a slot it has just appended.
SlabInsertNoStoreOnReuse(s, v) ==
    LET n == Len(s.list)
        grown == IF s.head >= n
                 THEN Append(s.list, SlabEntry(n + 1, None))
                 ELSE s.list
        g == [list |-> grown, head |-> s.head]
        ret == s.head
    IN  IF ~PyInRange(Len(grown), ret)
        THEN [slab |-> g, ok |-> FALSE, ret |-> ret, err |-> ListIndexError]
        ELSE [slab |-> [list |-> [grown EXCEPT ![SlotPos(g, ret)] =
                                      SlabEntry(-1, IF s.head >= n THEN Some(v) ELSE None)],
                        head |-> grown[SlotPos(g, ret)].next],
              ok |-> TRUE, ret |-> ret, err |-> "none"]

\* Slab.insert
SlabInsert(s, v) ==
    LET n == Len(s.list)
        grown == IF s.head >= n
                 THEN Append(s.list, SlabEntry(n + 1, None))
                 ELSE s.list
        g == [list |-> grown, head |-> s.head]
        ret == s.head
    IN  IF ~PyInRange(Len(grown), ret)
        THEN [slab |-> g, ok |-> FALSE, ret |-> ret, err |-> ListIndexError]
        ELSE [slab |-> [list |-> [grown EXCEPT ![SlotPos(g, ret)] =
                                      SlabEntry(-1, Some(v))],
                        head |-> grown[SlotPos(g, ret)].next],
              ok |-> TRUE, ret |-> ret, err |-> "none"]

\* ------------------------------------------- IndexSlab, ResourceSlab (Rust)

\* Largest number of resources the guest creates in a run.
MaxRes == 2

\* Largest number of owned handles the host holds at a time.
MaxHost == 1

\* Resource indices (ResourceIndex) and representation values (the i32 the
\* guest passes to resource_new; each creation passes a fresh one).
ResIdx == 0 .. (MaxRes - 1)
WasmVals == 1 .. MaxRes

\* The indices of s's slots that hold a value.
Occupied(s) ==
    {i \in 0 .. (Len(s.list) - 1) :
        s.list[i + 1].next = -1 /\ s.list[i + 1].val # None}

\* A further insert stays within MaxLen slots.
HasRoom(s) == s.head < Len(s.list) \/ Len(s.list) < MaxLen

\* Table of a host resource: insert, get and remove of the slab on a u32.
TableInsert(t, v) == SlabInsert(t, v)
TableGet(t, handle) == SlabGet(t, handle)
TableRemove(t, handle) == SlabRemove(t, handle)

\* IndexSlab: a slab whose payload is a ResourceIndex.
IndexInsert(s, ridx) == SlabInsert(s, ridx)
IndexGet(s, idx) == SlabGet(s, idx)
IndexRemove(s, idx) == SlabRemove(s, idx)

\* ResourceSlab: a slab whose payload is the representation value plus a
\* reference count.
Resource(wasm, refcnt) == [wasm |-> wasm, refcnt |-> refcnt]

\* ResourceSlab::insert: a new resource starts with one reference.
ResInsert(rs, wasm) == SlabInsert(rs, Resource(wasm, 1))

\* ResourceSlab::get: the representation value of a live resource.
ResGet(rs, ridx) ==
    LET g == SlabGet(rs, ridx) IN
    IF g.ok THEN Ok(g.val[1].wasm) ELSE Err(g.err)

\* The reference count of a resource, 0 when the index holds none.
RefCnt(rs, ridx) ==
    LET g == SlabGet(rs, ridx) IN IF g.ok THEN g.val[1].refcnt ELSE 0

\* ResourceSlab::clone: one more reference to the same payload.
ResClone(rs, ridx) ==
    LET g == SlabGet(rs, ridx) IN
    IF ~g.ok THEN [slab |-> rs, ok |-> FALSE, err |-> g.err]
    ELSE [slab |-> [rs EXCEPT !.list[ridx + 1].val =
                        Some(Resource(g.val[1].wasm, g.val[1].refcnt + 1))],
          ok |-> TRUE, err |-> "none"]

\* ResourceSlab::drop: one reference fewer; the last one frees the slot and
\* hands the representation value back for finalization.
ResDrop(rs, ridx) ==
    LET g == SlabGet(rs, ridx) IN
    IF ~g.ok THEN [slab |-> rs, ok |-> FALSE, out |-> None]
    ELSE IF g.val[1].refcnt = 1
    THEN [slab |-> SlabRemove(rs, ridx).slab, ok |-> TRUE,
          out |-> Some(g.val[1].wasm)]
    ELSE [slab |-> [rs EXCEPT !.list[ridx + 1].val =
                        Some(Resource(g.val[1].wasm, g.val[1].refcnt - 1))],
          ok |-> TRUE, out |-> None]

\* ------------------------------------------ generated handlers (gen-wasmer)

\* The two slabs of one exported resource.
Tables(is, rs) == [index_slab |-> is, resource_slab |-> rs]

\* Outcome of a handler: the tables it leaves, whether it returned Ok, the
\* index it returned, the value it returned, the representation value it
\* passed to the guest destructor, its error.
HRes(t, ok, ret, out, dtor, err) ==
    [tables |-> t, ok |-> ok, ret |-> ret, out |-> out, dtor |-> dtor,
     err |-> err]
HErr(t, err) == HRes(t, FALSE, 0, None, None, err)

\* canonical_abi resource_new_{resource}
resource_new(t, val) ==
    LET r == ResInsert(t.resource_slab, val)
        i == IndexInsert(t.index_slab, r.ret)
    IN  HRes(Tables(i.slab, r.slab), TRUE, i.ret, None, None, "none")

\* resource_clone_{resource} without the resource_slab.clone call.
resource_clone_no_count(t, idx) ==
    LET g == IndexGet(t.index_slab, idx) IN
    IF ~g.ok THEN HErr(t, g.err)
    ELSE LET i == IndexInsert(t.index_slab, g.val[1])
         IN  HRes(Tables(i.slab, t.resource_slab), TRUE, i.ret, None, None,
                  "none")

\* resource_clone_{resource} registering a fresh resource index.
resource_clone_fresh(t, idx) ==
    LET g == IndexGet(t.index_slab, idx) IN
    IF ~g.ok THEN HErr(t, g.err)
    ELSE LET c == ResClone(t.resource_slab, g.val[1]) IN
         IF ~c.ok THEN HErr(t, c.err)
         ELSE LET i == IndexInsert(t.index_slab, (g.val[1] + 1) % MaxRes)
              IN  HRes(Tables(i.slab, c.slab), TRUE, i.ret, None, None,
                       "none")

\* canonical_abi resource_clone_{resource}
resource_clone(t, idx) ==
    LET g == IndexGet(t.index_slab, idx) IN
    IF ~g.ok THEN HErr(t, g.err)
    ELSE LET c == ResClone(t.resource_slab, g.val[1]) IN
         IF ~c.ok THEN HErr(t, c.err)
         ELSE LET i == IndexInsert(t.index_slab, g.val[1])
              IN  HRes(Tables(i.slab, c.slab), TRUE, i.ret, None, None,
                       "none")

\* canonical_abi resource_get_{resource}
resource_get(t, idx) ==
    LET g == IndexGet(t.index_slab, idx) IN
    IF ~g.ok THEN HErr(t, g.err)
    ELSE LET w == ResGet(t.resource_slab, g.val[1])
         IN  HRes(t, w.ok, 0, w.val, None, w.err)

\* canonical_abi resource_drop_{resource}
resource_drop(t, idx) ==
    LET r == IndexRemove(t.index_slab, idx) IN
    IF ~r.ok THEN HErr(t, r.err)
    ELSE LET d == ResDrop(t.resource_slab, r.val[1])
         IN  HRes(Tables(r.slab, d.slab), TRUE, 0, None, d.out, "none")

\* drop_{name_snake}: the host gives up an owned handle.
drop_resource(t, ridx) ==
    LET d == ResDrop(t.resource_slab, ridx)
    IN  HRes(Tables(t.index_slab, d.slab), d.ok, 0, None, d.out, "none")

\* Instruction::I32FromBorrowedHandle without the resource_slab.clone call.
I32FromBorrowedHandleNoClone(t, ridx) ==
    LET g == SlabGet(t.resource_slab, ridx) IN
    IF ~g.ok THEN HErr(t, g.err)
    ELSE LET i == IndexInsert(t.index_slab, ridx)
         IN  HRes(Tables(i.slab, t.resource_slab), TRUE, i.ret, None, None,
                  "none")

\* Instruction::I32FromBorrowedHandle: lower `&Resource` for the guest.
I32FromBorrowedHandle(t, ridx) ==
    LET c == ResClone(t.resource_slab, ridx) IN
    IF ~c.ok THEN HErr(t, c.err)
    ELSE LET i == IndexInsert(t.index_slab, ridx)
         IN  HRes(Tables(i.slab, c.slab), TRUE, i.ret, None, None, "none")

\* Instruction::HandleOwnedFromI32: lift an owned handle the guest returned.
HandleOwnedFromI32(t, idx) ==
    LET r == IndexRemove(t.index_slab, idx) IN
    IF ~r.ok THEN HErr(t, r.err)
    ELSE HRes(Tables(r.slab, t.resource_slab), TRUE, 0, r.val, None, "none")

\* Instruction::HandleBorrowedFromI32 taking the handle out of the table.
HandleBorrowedFromI32Consuming(t, handle) ==
    LET g == TableRemove(t, handle) IN
    [slab |-> g.slab, ok |-> g.ok, val |-> g.val,
     err |-> IF g.ok THEN "none" ELSE "invalid handle index"]

\* Instruction::HandleBorrowedFromI32: lift a handle the guest passed.
HandleBorrowedFromI32(t, handle) ==
    LET g == TableGet(t, handle) IN
    [slab |-> t, ok |-> g.ok, val |-> g.val,
     err |-> IF g.ok THEN "none" ELSE "invalid handle index"]

\* RefCell::borrow_mut on `data_mut.tables`: fails while a borrow is live.
BorrowMut(b) == [ok |-> b = 0, n |-> b + 1]

\* Instruction::I32FromOwnedHandle: lower an owned handle for the guest.
I32FromOwnedHandle(t, b, v) ==
    LET bm == BorrowMut(b)
        r == TableInsert(t, v)
    IN  IF ~bm.ok THEN [slab |-> t, panic |-> TRUE, ret |-> 0]
        ELSE [slab |-> r.slab, panic |-> FALSE, ret |-> r.ret]

\* CallInterface without the `drop(tables);` it emits after the call.
DropTablesMissing(b) == b

\* CallInterface: `drop(tables);` after the host function has returned.
DropTables(b) == b - 1

\* The closure returns: a `tables` borrow it still holds is released.
ScopeExit(b) == IF b > 0 THEN b - 1 ELSE b

\* ------------------------------------------------------------ linear memory

\* mem.data_size: the extent of the linear memory in bytes.
DataSize == 5

\* The wire carries 32-bit words and the helpers mask them with 0xffffffff;
\* the model's words are narrower, wide enough for every address it forms.
U32Mod == 64

\* view.bytes_per_element of the uint8, uint16 and uint32 views.
ElemSizes == {1, 2, 4}

\* Pointers the guest hands over: every address of the memory, the first one
\* past it, and a negative word.
Bases == -1 .. DataSize

\* Field offsets the generated code adds to a base pointer.
Offsets == {0, 2}

\* Lengths of strings and lists: empty, short, and a negative word.
Lens == -1 .. 2

\* The byte a store writes; the memory starts with a different byte at every
\* address, so that the bytes a load returns tell where it read.
Marker == 255
MemNew == [a \in 0 .. (DataSize - 1) |-> a + 1]
Data(n) == [i \in 1 .. n |-> Marker]

IdleMem ==
    /\ mem = MemNew
    /\ touched = {}

\* `x & 0xffffffff`
Mask32(x) == x % U32Mod

Range(a, n) == a .. (a + n - 1)

\* The n bytes of m from byte address a on.
BytesAt(m, a, n) == [i \in 1 .. n |-> m[a + i - 1]]

\* m with bytes written from byte address a on.
WriteAt(m, a, bytes) ==
    [x \in DOMAIN m |->
        IF x \in Range(a, Len(bytes)) THEN bytes[x - a + 1] ELSE m[x]]

\* Outcome of a memory helper: the memory it leaves, the address and the
\* number of bytes it was asked for, the element size, the bytes it
\* accessed, the bytes it returned.
MRes(m, ok, addr, n, size, acc, out, err) ==
    [mem |-> m, ok |-> ok, addr |-> addr, n |-> n, size |-> size,
     acc |-> acc, out |-> out, err |-> err]
MErr(m, addr, n, size, err) == MRes(m, FALSE, addr, n, size, {}, None, err)

\* _store: view[view_ptr] = val on a view of `size`-byte elements.
_store(m, size, base, offset, val) ==
    LET ptr == Mask32(base) + offset
        view_ptr == ptr \div size
    IN  IF ptr + size > DataSize
        THEN MErr(m, ptr, size, size, "IndexError: out-of-bounds store")
        ELSE MRes(WriteAt(m, view_ptr * size, val), TRUE, ptr, size, size,
                  Range(view_ptr * size, size), None, "none")

\* _load: return view[view_ptr]
_load(m, size, base, offset) ==
    LET ptr == Mask32(base) + offset
        view_ptr == ptr \div size
    IN  IF ptr + size > DataSize
        THEN MErr(m, ptr, size, size, "IndexError: out-of-bounds load")
        ELSE MRes(m, TRUE, ptr, size, size, Range(view_ptr * size, size),
                  Some(BytesAt(m, view_ptr * size, size)), "none")

\* _decode_utf8: bytearray(view[ptr:ptr+len]) on the uint8 view.
_decode_utf8(m, p, l) ==
    LET ptr == Mask32(p)
        len == Mask32(l)
    IN  IF ptr + len > DataSize
        THEN MErr(m, ptr, len, 1, "IndexError: string out of bounds")
        ELSE MRes(m, TRUE, ptr, len, 1, Range(ptr, len),
                  Some(BytesAt(m, ptr, len)), "none")

\* _encode_utf8: bytes is the encoded string, p what realloc returned.
_encode_utf8(m, bytes, p) ==
    LET ptr == Mask32(p) IN
    IF ptr + Len(bytes) > DataSize
    THEN MErr(m, ptr, Len(bytes), 1, "IndexError: string out of bounds")
    ELSE MRes(WriteAt(m, ptr, bytes), TRUE, ptr, Len(bytes), 1,
              Range(ptr, Len(bytes)), None, "none")

\* _list_canon_lift: view[view_ptr:view_ptr + len]
_list_canon_lift(m, p, l, size) ==
    LET ptr == Mask32(p)
        len == Mask32(l)
        view_ptr == ptr \div size
    IN  IF ptr + len * size > DataSize
        THEN MErr(m, ptr, len * size, size, "IndexError: list out of bounds")
        ELSE MRes(m, TRUE, ptr, len * size, size,
                  Range(view_ptr * size, len * size),
                  Some(BytesAt(m, view_ptr * size, len * size)), "none")

\* _list_canon_lower_at_ptr: the list is written at ptr itself.
_list_canon_lower_at_ptr(m, bytes, size, p) ==
    LET total_size == Len(bytes)
        ptr == Mask32(p)
    IN  IF ptr + total_size > DataSize
        THEN MErr(m, ptr, total_size, size,
                  "IndexError: list realloc return of bounds")
        ELSE MRes(WriteAt(m, ptr, bytes), TRUE, ptr, total_size,
                  size, Range(ptr, total_size), None, "none")
\* _list_canon_lower: bytes is the list's `len(list)` elements of `size`
\* bytes each, p what realloc returned.
_list_canon_lower(m, bytes, size, p) ==
    LET total_size == Len(bytes)
        ptr == Mask32(p)
        view_ptr == ptr \div size
    IN  IF ptr + total_size > DataSize
        THEN MErr(m, ptr, total_size, size,
                  "IndexError: list realloc return of bounds")
        ELSE MRes(WriteAt(m, view_ptr * size, bytes), TRUE, ptr, total_size,
                  size, Range(view_ptr * size, total_size), None, "none")

\* RawMem::load and RawMem::store of the Rust runtime: a checked access to
\* the `size` bytes at a byte offset.
RawMemLoad(m, offset, size) ==
    IF offset < 0 \/ offset + size > DataSize
    THEN MErr(m, offset, size, size, "out of bounds read")
    ELSE MRes(m, TRUE, offset, size, size, Range(offset, size),
              Some(BytesAt(m, offset, size)), "none")
RawMemStore(m, offset, val) ==
    IF offset < 0 \/ offset + Len(val) > DataSize
    THEN MErr(m, offset, Len(val), Len(val), "out of bounds write")
    ELSE MRes(WriteAt(m, offset, val), TRUE, offset, Len(val), Len(val),
              Range(offset, Len(val)), None, "none")

\* FunctionBindgen::load: `{mem}.load::<{ty}>({operand} + {offset})?`
load(m, size, operand, offset) == RawMemLoad(m, operand + offset, size)

\* FunctionBindgen::store: `{mem}.store({operand} + {offset}, {val})?`
store(m, operand, offset, val) == RawMemStore(m, operand + offset, val)

\* --------------------------------------------------------------- operations

Op(op, idx, val, ok, ret, out, err) ==
    [op |-> op, idx |-> idx, val |-> val, ok |-> ok, ret |-> ret,
     out |-> out, err |-> err]

Snapshot ==
    [slab |-> slab, freed |-> freed, index_slab |-> index_slab,
     resource_slab |-> resource_slab, host_handles |-> host_handles,
     mem |-> mem]

\* Shapes of interface functions that mention the resource: whether a
\* parameter is a borrowed handle, whether the result is an owned handle, and
\* whether the host function returns a Result whose Err becomes a trap.
Fn(name, borrows, returns, fallible) ==
    [name |-> name, borrows |-> borrows, returns |-> returns,
     fallible |-> fallible]
Functions ==
    {Fn("use", TRUE, FALSE, FALSE), Fn("make", FALSE, TRUE, FALSE),
     Fn("derive", TRUE, TRUE, TRUE)}

\* The call in flight: its function, the handle argument on the wire, the
\* lifted parameter, the host function's result, the index a lowered borrow
\* was given, the occupied indices of the table at entry, and whether the
\* guest has left the tables alone during the call (the last three are
\* history, kept to state what a call leaves behind).
Frame(fn, arg, lifted, result, bidx, entry, quiet) ==
    [fn |-> fn, arg |-> arg, lifted |-> lifted, result |-> result,
     bidx |-> bidx, entry |-> entry, quiet |-> quiet]
NoFrame == Frame(Fn("none", FALSE, FALSE, FALSE), 0, None, None, None,
                 {}, TRUE)

\* The frame once the guest has made a table call of its own: what the
\* tables were at entry is no longer followed.
Busy(fr) == [fr EXCEPT !.quiet = FALSE, !.entry = {}, !.bidx = None]

IdleCall ==
    /\ frame = NoFrame
    /\ borrow = 0
    /\ panicked = FALSE

IdleExport ==
    /\ index_slab = SlabNew
    /\ resource_slab = SlabNew
    /\ host_handles = [r \in ResIdx |-> 0]
    /\ next_wasm = 1
    /\ dtor_calls = [w \in WasmVals |-> 0]

IdleSlab ==
    /\ slab = SlabNew
    /\ dropped = None
    /\ live = {}
    /\ freed = <<>>
    /\ last = Op("init", 0, None, TRUE, 0, None, "none")
    /\ pre = [slab |-> SlabNew, freed |-> <<>>, index_slab |-> SlabNew,
              resource_slab |-> SlabNew,
              host_handles |-> [r \in ResIdx |-> 0], mem |-> MemNew]

SlabInit ==
    /\ IdleSlab
    /\ in_import = TRUE
    /\ pc = "guest"
    /\ IdleCall
    /\ IdleExport
    /\ IdleMem
    /\ IdleGen

\* A caller inserts v.  The guard keeps the table within MaxLen slots.
Insert(v) ==
    /\ HasRoom(slab)
    /\ LET r == SlabInsert(slab, v) IN
       /\ slab' = r.slab
       /\ last' = Op("insert", 0, Some(v), r.ok, r.ret, None, r.err)
       /\ live' = IF r.ok THEN live \cup {r.ret} ELSE live
       /\ freed' = IF r.ok /\ freed # <<>> THEN Tail(freed) ELSE freed
    /\ pre' = Snapshot
    /\ dropped' = None
    /\ UNCHANGED <<callVars, exportVars>>
    /\ UNCHANGED <<memVars, genVars>>

\* A caller looks idx up.
Get(idx) ==
    /\ LET r == SlabGet(slab, idx) IN
       last' = Op("get", idx, None, r.ok, 0, r.val, r.err)
    /\ pre' = Snapshot
    /\ dropped' = None
    /\ UNCHANGED <<slab, live, freed, callVars, exportVars>>
    /\ UNCHANGED <<memVars, genVars>>

\* A caller removes idx.
Remove(idx) ==
    /\ LET r == SlabRemove(slab, idx) IN
       /\ slab' = r.slab
       /\ last' = Op("remove", idx, None, r.ok, 0, r.val, r.err)
       /\ live' = IF r.ok THEN live \ {idx} ELSE live
       /\ freed' = IF r.ok THEN <<idx>> \o freed ELSE freed
    /\ pre' = Snapshot
    /\ dropped' = None
    /\ UNCHANGED <<callVars, exportVars>>
    /\ UNCHANGED <<memVars, genVars>>

\* resource_drop_{name}: the guest drops a handle to a host resource.
\*     let mut tables = data_mut.tables.borrow_mut();
\*     let handle = tables.{snake}_table.remove(handle).map_err(..)?;
\*     host.drop_{snake}(handle);
ResourceDrop(handle) ==
    /\ in_import /\ pc = "guest" /\ ~panicked
    /\ LET bm == BorrowMut(borrow)
           r == TableRemove(slab, handle)
       IN  IF ~bm.ok
           THEN /\ panicked' = TRUE
                /\ UNCHANGED <<slabVars, frame>>
           ELSE /\ slab' = r.slab
                /\ last' = Op("resource_drop", handle, None, r.ok, 0, r.val,
                              IF r.ok THEN "none"
                              ELSE "failed to remove handle")
                /\ dropped' = IF r.ok THEN r.val ELSE None
                /\ live' = IF r.ok THEN live \ {handle} ELSE live
                /\ freed' = IF r.ok THEN <<handle>> \o freed ELSE freed
                /\ pre' = Snapshot
                /\ frame' = NoFrame
                /\ panicked' = FALSE
    /\ UNCHANGED <<in_import, pc, borrow, exportVars>>
    /\ UNCHANGED <<memVars, genVars>>

SlabNext ==
    \/ \E v \in Values : Insert(v)
    \/ \E idx \in IdxRange : Get(idx)
    \/ \E idx \in IdxRange : Remove(idx)
    \/ \E handle \in U32Range : ResourceDrop(handle)

SlabSpec == SlabInit /\ [][SlabNext]_vars

Spec == SlabSpec

\* ---------------------------------------------- calls through the bindings

\* The bindings are generated either for the imports of a guest (in_import:
\* the resource lives in the host's table) or for its exports (the resource
\* lives in the guest, behind the index slab and the resource slab).
HandleInit ==
    /\ IdleSlab
    /\ in_import \in BOOLEAN
    /\ pc = IF in_import THEN "guest" ELSE "host"
    /\ IdleCall
    /\ IdleExport
    /\ IdleMem
    /\ IdleGen

\* The guest calls an imported function: the closure starts with
\*     let tables = data_mut.tables.borrow_mut();
ImpEnter(f, arg) ==
    /\ in_import /\ pc = "guest" /\ ~panicked
    /\ f.returns => HasRoom(slab)
    /\ ~f.borrows => arg = 0
    /\ LET bm == BorrowMut(borrow) IN
       IF ~bm.ok
       THEN /\ panicked' = TRUE
            /\ UNCHANGED <<last, pre, pc, frame, borrow>>
       ELSE /\ borrow' = bm.n
            /\ pc' = IF f.borrows THEN "lift" ELSE "call"
            /\ frame' = Frame(f, arg, None, None, None, Occupied(slab), TRUE)
            /\ last' = Op("import_enter", arg, None, TRUE, 0, None, "none")
            /\ pre' = Snapshot
            /\ panicked' = FALSE
    /\ dropped' = None
    /\ UNCHANGED <<slab, live, freed, in_import, exportVars>>
    /\ UNCHANGED <<memVars, genVars>>

\* The closure lifts its borrowed handle parameter; an invalid handle makes
\* it return the error.
ImpLift ==
    /\ in_import /\ pc = "lift" /\ ~panicked
    /\ LET r == HandleBorrowedFromI32(slab, frame.arg) IN
       /\ slab' = r.slab
       /\ last' = Op("lift_borrowed", frame.arg, None, r.ok, 0, r.val, r.err)
       /\ pc' = IF r.ok THEN "call" ELSE "guest"
       /\ frame' = [frame EXCEPT !.lifted = r.val]
       /\ borrow' = IF r.ok THEN borrow ELSE ScopeExit(borrow)
    /\ pre' = Snapshot
    /\ dropped' = None
    /\ UNCHANGED <<live, freed, in_import, panicked, exportVars>>
    /\ UNCHANGED <<memVars, genVars>>

\* The closure calls the host function, which returns res (or fails), and
\* then gives the tables up.
ImpHostCall(res, fail) ==
    /\ in_import /\ pc = "call" /\ ~panicked
    /\ fail => frame.fn.fallible
    /\ res # None <=> frame.fn.returns /\ ~fail
    /\ last' = Op("host_call", frame.arg, frame.lifted, ~fail, 0, res,
                  IF fail THEN "trap" ELSE "none")
    /\ pc' = IF fail THEN "guest" ELSE "lower"
    /\ frame' = [frame EXCEPT !.result = res]
    /\ borrow' = IF fail THEN ScopeExit(borrow) ELSE DropTables(borrow)
    /\ pre' = Snapshot
    /\ dropped' = None
    /\ UNCHANGED <<slab, live, freed, in_import, panicked, exportVars>>
    /\ UNCHANGED <<memVars, genVars>>

\* The closure lowers the result (an owned handle is inserted into the
\* table) and returns to the guest.
ImpLower ==
    /\ in_import /\ pc = "lower" /\ ~panicked
    /\ LET r == IF frame.fn.returns
                THEN I32FromOwnedHandle(slab, borrow, frame.result[1])
                ELSE [slab |-> slab, panic |-> FALSE, ret |-> 0]
       IN  IF r.panic
           THEN /\ panicked' = TRUE
                /\ UNCHANGED <<slab, live, freed, last, pre, pc, borrow>>
           ELSE /\ slab' = r.slab
                /\ live' = IF frame.fn.returns THEN live \cup {r.ret}
                           ELSE live
                /\ freed' = IF frame.fn.returns /\ freed # <<>>
                            THEN Tail(freed) ELSE freed
                /\ last' = Op("import_return", frame.arg, frame.result, TRUE,
                              r.ret, None, "none")
                /\ pre' = Snapshot
                /\ pc' = "guest"
                /\ borrow' = ScopeExit(borrow)
                /\ panicked' = FALSE
    /\ dropped' = None
    /\ UNCHANGED <<frame, in_import, exportVars>>
    /\ UNCHANGED <<memVars, genVars>>

ExportTables == Tables(index_slab, resource_slab)

HostHandleCount ==
    LET RECURSIVE Sum(_)
        Sum(S) == IF S = {} THEN 0
                  ELSE LET r == CHOOSE x \in S : TRUE
                       IN  host_handles[r] + Sum(S \ {r})
    IN  Sum(ResIdx)

\* What a handler's outcome r does to the export-side state.
Commit(r, op, idx) ==
    /\ index_slab' = r.tables.index_slab
    /\ resource_slab' = r.tables.resource_slab
    /\ dtor_calls' = IF r.dtor = None THEN dtor_calls
                     ELSE [dtor_calls EXCEPT ![r.dtor[1]] = @ + 1]
    /\ dropped' = r.dtor
    /\ last' = Op(op, idx, None, r.ok, r.ret, r.out, r.err)
    /\ pre' = Snapshot

\* The host calls an exported function, lowering a borrowed handle h it
\* owns when the function takes one, and the guest starts to run.
ExpCall(f, h) ==
    /\ ~in_import /\ pc = "host" /\ ~panicked
    /\ IF f.borrows THEN host_handles[h] > 0 /\ HasRoom(index_slab)
       ELSE h = 0
    /\ LET r == IF f.borrows THEN I32FromBorrowedHandle(ExportTables, h)
                ELSE HRes(ExportTables, TRUE, 0, None, None, "none")
       IN  /\ Commit(r, "export_call", h)
           /\ frame' = Frame(f, h, None, None,
                             IF f.borrows /\ r.ok THEN Some(r.ret) ELSE None,
                             Occupied(index_slab), TRUE)
           /\ pc' = IF r.ok THEN "guest" ELSE "host"
    /\ UNCHANGED <<slab, live, freed, in_import, borrow, panicked,
                   host_handles, next_wasm>>
    /\ UNCHANGED <<memVars, genVars>>

\* The running guest registers a new resource.
GuestResourceNew ==
    /\ ~in_import /\ pc = "guest" /\ ~panicked
    /\ next_wasm <= MaxRes /\ HasRoom(index_slab)
    /\ Commit(resource_new(ExportTables, next_wasm),
              "canonical_abi.resource_new", 0)
    /\ next_wasm' = next_wasm + 1
    /\ frame' = Busy(frame)
    /\ UNCHANGED <<slab, live, freed, in_import, pc, borrow, panicked,
                   host_handles>>
    /\ UNCHANGED <<memVars, genVars>>

\* The running guest clones handle idx.
GuestResourceClone(idx) ==
    /\ ~in_import /\ pc = "guest" /\ ~panicked
    /\ HasRoom(index_slab)
    /\ Commit(resource_clone(ExportTables, idx),
              "canonical_abi.resource_clone", idx)
    /\ frame' = Busy(frame)
    /\ UNCHANGED <<slab, live, freed, in_import, pc, borrow, panicked,
                   host_handles, next_wasm>>
    /\ UNCHANGED <<memVars, genVars>>

\* The running guest asks for the representation behind handle idx.
GuestResourceGet(idx) ==
    /\ ~in_import /\ pc = "guest" /\ ~panicked
    /\ Commit(resource_get(ExportTables, idx),
              "canonical_abi.resource_get", idx)
    /\ UNCHANGED <<slab, live, freed, in_import, pc, frame, borrow, panicked,
                   host_handles, next_wasm>>
    /\ UNCHANGED <<memVars, genVars>>

\* The running guest drops handle idx.
GuestResourceDrop(idx) ==
    /\ ~in_import /\ pc = "guest" /\ ~panicked
    /\ Commit(resource_drop(ExportTables, idx),
              "canonical_abi.resource_drop", idx)
    /\ frame' = Busy(frame)
    /\ UNCHANGED <<slab, live, freed, in_import, pc, borrow, panicked,
                   host_handles, next_wasm>>
    /\ UNCHANGED <<memVars, genVars>>

\* The guest returns; a function returning a resource returns index idx,
\* which the host lifts as an owned handle.
ExpReturn(idx) ==
    /\ ~in_import /\ pc = "guest" /\ ~panicked
    /\ IF frame.fn.returns THEN HostHandleCount < MaxHost ELSE idx = 0
    /\ LET r == IF frame.fn.returns
                THEN HandleOwnedFromI32(ExportTables, idx)
                ELSE HRes(ExportTables, TRUE, 0, None, None, "none")
       IN  /\ Commit(r, "export_return", idx)
           /\ host_handles' = IF r.out = None THEN host_handles
                              ELSE [host_handles EXCEPT ![r.out[1]] = @ + 1]
    /\ pc' = "host"
    /\ UNCHANGED <<slab, live, freed, in_import, frame, borrow, panicked,
                   next_wasm>>
    /\ UNCHANGED <<memVars, genVars>>

\* The host gives up an owned handle to resource h.
HostDrop(h) ==
    /\ ~in_import /\ pc = "host" /\ ~panicked
    /\ host_handles[h] > 0
    /\ LET r == drop_resource(ExportTables, h) IN
       /\ Commit(r, "host_drop", h)
       /\ panicked' = ~r.ok
    /\ host_handles' = [host_handles EXCEPT ![h] = @ - 1]
    /\ frame' = NoFrame
    /\ UNCHANGED <<slab, live, freed, in_import, pc, borrow, next_wasm>>
    /\ UNCHANGED <<memVars, genVars>>

HandleNext ==
    \/ \E f \in Functions : \E arg \in U32Range : ImpEnter(f, arg)
    \/ ImpLift
    \/ \E res \in {None} \cup {Some(v) : v \in Values} :
           \E fail \in BOOLEAN : ImpHostCall(res, fail)
    \/ ImpLower
    \/ \E handle \in U32Range : ResourceDrop(handle)
    \/ \E f \in Functions : \E h \in ResIdx : ExpCall(f, h)
    \/ GuestResourceNew
    \/ \E idx \in U32Range : GuestResourceClone(idx)
    \/ \E idx \in U32Range : GuestResourceGet(idx)
    \/ \E idx \in U32Range : GuestResourceDrop(idx)
    \/ \E idx \in U32Range : ExpReturn(idx)
    \/ \E h \in ResIdx : HostDrop(h)

HandleSpec == HandleInit /\ [][HandleNext]_vars

\* ---------------------------------------------------- memory accesses

\* The record of a memory helper's call: the address and the number of
\* bytes asked for stand in idx and ret.
MemOp(op, r, val) ==
    [op |-> op, idx |-> r.addr, val |-> val, ok |-> r.ok, ret |-> r.n,
     out |-> r.out, err |-> r.err, size |-> r.size]

\* What a memory helper's outcome r does to the state.
MemStep(op, r, val) ==
    /\ mem' = r.mem
    /\ touched' = r.acc
    /\ last' = MemOp(op, r, val)
    /\ pre' = Snapshot
    /\ UNCHANGED <<slab, dropped, live, freed, callVars, exportVars>>
    /\ UNCHANGED genVars

MemInit == SlabInit

CallStore(size, base, offset) ==
    MemStep("_store", _store(mem, size, base, offset, Data(size)),
            Some(Data(size)))

CallLoad(size, base, offset) ==
    MemStep("_load", _load(mem, size, base, offset), None)

CallDecodeUtf8(ptr, len) ==
    MemStep("_decode_utf8", _decode_utf8(mem, ptr, len), None)

CallEncodeUtf8(n, ptr) ==
    MemStep("_encode_utf8", _encode_utf8(mem, Data(n), ptr), Some(Data(n)))

CallListCanonLift(ptr, len, size) ==
    MemStep("_list_canon_lift", _list_canon_lift(mem, ptr, len, size), None)

CallListCanonLower(n, size, ptr) ==
    MemStep("_list_canon_lower",
            _list_canon_lower(mem, Data(n * size), size, ptr),
            Some(Data(n * size)))

RustLoad(size, operand, offset) ==
    MemStep("load", load(mem, size, operand, offset), None)

RustStore(size, operand, offset) ==
    MemStep("store", store(mem, operand, offset, Data(size)),
            Some(Data(size)))

MemNext ==
    \/ \E size \in ElemSizes : \E base \in Bases : \E offset \in Offsets :
           CallStore(size, base, offset)
    \/ \E size \in ElemSizes : \E base \in Bases : \E offset \in Offsets :
           CallLoad(size, base, offset)
    \/ \E ptr \in Bases : \E len \in Lens : CallDecodeUtf8(ptr, len)
    \/ \E n \in 0 .. 2 : \E ptr \in Bases : CallEncodeUtf8(n, ptr)
    \/ \E ptr \in Bases : \E len \in Lens : \E size \in ElemSizes :
           CallListCanonLift(ptr, len, size)
    \/ \E n \in 0 .. 2 : \E size \in ElemSizes : \E ptr \in Bases :
           CallListCanonLower(n, size, ptr)
    \/ \E size \in ElemSizes : \E operand \in Bases : \E offset \in Offsets :
           RustLoad(size, operand, offset)
    \/ \E size \in ElemSizes : \E operand \in Bases : \E offset \in Offsets :
           RustStore(size, operand, offset)

MemSpec == MemInit /\ [][MemNext]_vars

\* ------------------------------------------------------------------ claims

\* C1: get(idx) and remove(idx) succeed if and only if idx is an index
\* returned by some insert and not removed since; for every other integer
\* (past the end, naming a freed slot, or negative) they fail with the
\* handle-invalid error and return no value.
C1_GetRemoveIffLive ==
    \A idx \in IdxRange :
        LET g == SlabGet(slab, idx)
            r == SlabRemove(slab, idx)
        IN  /\ g.ok <=> idx \in live
            /\ r.ok <=> idx \in live
            /\ ~g.ok => g.err \in IndexErrors /\ g.val = None
            /\ ~r.ok => r.err \in IndexErrors /\ r.val = None


\* C1, the part the code does satisfy: for an index that is not negative,
\* get and remove succeed exactly on the occupied slots.
C1_NonNegativeIffOccupied ==
    \A idx \in U32Range :
        /\ SlabGet(slab, idx).ok <=> idx \in Occupied(slab)
        /\ SlabRemove(slab, idx).ok <=> idx \in Occupied(slab)

RECURSIVE RemoveSeq(_, _)
RemoveSeq(s, q) ==
    IF q = <<>> THEN [slab |-> s, ok |-> TRUE]
    ELSE LET r == SlabRemove(s, Head(q)) IN
         IF r.ok THEN RemoveSeq(r.slab, Tail(q)) ELSE [slab |-> s, ok |-> FALSE]

RECURSIVE InsertSeq(_, _)
InsertSeq(s, n) ==
    IF n = 0 THEN <<>>
    ELSE LET r == SlabInsert(s, "x") IN <<r.ret>> \o InsertSeq(r.slab, n - 1)

Reverse(q) == [i \in 1 .. Len(q) |-> q[Len(q) + 1 - i]]

Orders(S) ==
    {q \in [1 .. Cardinality(S) -> S] :
        \A i, j \in 1 .. Cardinality(S) : i # j => q[i] # q[j]}

\* C2: insert returns the current head; with no freed index outstanding it
\* appends a slot and returns the previous length, otherwise it returns the
\* most recently freed index that has not been reused and the table does not
\* grow.  Removing any batch of live indices and inserting as many values
\* returns the same indices, last freed first.
C2_InsertReusesLifo ==
    /\ last.op = "insert" =>
        /\ last.ok
        /\ last.ret = pre.slab.head
        /\ IF pre.freed = <<>>
           THEN /\ last.ret = Len(pre.slab.list)
                /\ Len(slab.list) = Len(pre.slab.list) + 1
           ELSE /\ last.ret = Head(pre.freed)
                /\ Len(slab.list) = Len(pre.slab.list)
    /\ \A S \in SUBSET live : \A q \in Orders(S) :
           LET r == RemoveSeq(slab, q) IN
           r.ok => InsertSeq(r.slab, Len(q)) = Reverse(q)

C2_Witness ==
    /\ last.op = "insert"
    /\ Len(pre.freed) >= 2
    /\ last.ret = Head(pre.freed)
    /\ pre.freed[1] < pre.freed[2]

\* The slot the last successful operation allocated or freed.
Touched ==
    IF last.op = "insert"
    THEN PyIndex(Len(slab.list), last.ret)
    ELSE PyIndex(Len(pre.slab.list), last.idx)

\* C3: a successful insert, remove or resource_drop changes only the slot it
\* allocates or frees: every other slot that held a value before still holds
\* it, and get on it returns the same value.
C3_OtherSlotsUntouched ==
    (last.op \in {"insert", "remove", "resource_drop"} /\ last.ok) =>
        \A j \in 0 .. (Len(pre.slab.list) - 1) :
            (j # Touched /\ SlabGet(pre.slab, j).ok) =>
                /\ SlabGet(slab, j) = SlabGet(pre.slab, j)
                /\ slab.list[j + 1] = pre.slab.list[j + 1]

\* insert x -> 0, insert y -> 1, remove 0, insert -> 0 again, get(1) = y.
C3_Witness ==
    /\ last.op = "insert" /\ last.ret = 0
    /\ pre.freed = <<0>>
    /\ SlabGet(pre.slab, 1) = Ok("y")
    /\ SlabGet(slab, 1) = Ok("y")
    /\ SlabGet(slab, 0) = Ok("x")

\* C4: a get, remove or resource_drop that fails leaves the table as it was
\* (entries, free-list links and head), and a failed resource_drop does not
\* reach the host destructor.
C4_FailureLeavesTable ==
    (last.op \in {"get", "remove", "resource_drop"} /\ ~last.ok) =>
        /\ slab = pre.slab
        /\ freed = pre.freed
        /\ dropped = None
        /\ last.out = None

C4_Witness ==
    /\ last.op = "resource_drop" /\ ~last.ok
    /\ last.idx < Len(slab.list)
    /\ Occupied(slab) # {}

\* C5: no generation counter: when insert returns an index that was removed
\* earlier, get on that same index (a stale copy of the old handle) succeeds
\* and returns the newly inserted value.
C5_StaleHandleSeesNewValue ==
    (last.op = "insert" /\ \E k \in 1 .. Len(pre.freed) : pre.freed[k] = last.ret) =>
        /\ last.ok
        /\ SlabGet(slab, last.ret) = [ok |-> TRUE, val |-> last.val, err |-> "none"]
        /\ ~SlabGet(pre.slab, last.ret).ok

C5_Witness ==
    /\ last.op = "insert" /\ last.val = Some("y")
    /\ pre.freed # <<>> /\ Head(pre.freed) = last.ret
    /\ last.ret >= 0
    /\ SlabGet(slab, last.ret) = Ok("y")

\* The inner resource index an outer index resolved to before the last
\* operation, and the representation value behind it.
PreResIdx(idx) == IndexGet(pre.index_slab, idx).val[1]
PreTables == Tables(pre.index_slab, pre.resource_slab)

\* The outer indices of t that resolve to inner resource ridx.
OuterRefs(t, ridx) ==
    {i \in Occupied(t.index_slab) : IndexGet(t.index_slab, i) = Ok(ridx)}

\* C6: a shareable resource is reference counted.  A successful
\* resource_clone adds one to the count of the resource its argument
\* resolves to and allocates no payload; every successful drop (the guest's
\* resource_drop and the host's drop) takes one off; the destructor is
\* called by exactly the drops that find the count at one, only by them, at
\* most once per resource, and only when no other outer index and no host
\* handle still names the resource.
C6_RefCountedDestructor ==
    /\ \A w \in WasmVals : dtor_calls[w] <= 1
    /\ \A w \in WasmVals : \A r \in Occupied(resource_slab) :
           ResGet(resource_slab, r) = Ok(w) => dtor_calls[w] = 0
    /\ (~in_import /\ dropped # None) =>
           last.op \in {"canonical_abi.resource_drop", "host_drop"} /\ last.ok
    /\ (last.op = "canonical_abi.resource_clone" /\ last.ok) =>
           LET r == PreResIdx(last.idx) IN
           /\ RefCnt(resource_slab, r) = RefCnt(pre.resource_slab, r) + 1
           /\ ResGet(resource_slab, r) = ResGet(pre.resource_slab, r)
           /\ Len(resource_slab.list) = Len(pre.resource_slab.list)
           /\ Occupied(resource_slab) = Occupied(pre.resource_slab)
           /\ \A q \in Occupied(resource_slab) \ {r} :
                  resource_slab.list[q + 1] = pre.resource_slab.list[q + 1]
    /\ (last.op \in {"canonical_abi.resource_drop", "host_drop"} /\ last.ok) =>
           LET r == IF last.op = "host_drop" THEN last.idx
                    ELSE PreResIdx(last.idx)
               c == RefCnt(pre.resource_slab, r)
           IN  /\ c >= 1
               /\ IF c = 1
                  THEN /\ dropped = ResGet(pre.resource_slab, r).val
                       /\ r \notin Occupied(resource_slab)
                       /\ Cardinality(OuterRefs(PreTables, r))
                              + pre.host_handles[r] = 1
                       /\ OuterRefs(ExportTables, r) = {}
                       /\ host_handles[r] = 0
                  ELSE /\ dropped = None
                       /\ RefCnt(resource_slab, r) = c - 1
                       /\ ResGet(resource_slab, r) = ResGet(pre.resource_slab, r)

C6_Witness ==
    /\ last.op = "canonical_abi.resource_drop" /\ last.ok /\ dropped = None
    /\ RefCnt(pre.resource_slab, PreResIdx(last.idx)) = 2
    /\ RefCnt(resource_slab, PreResIdx(last.idx)) = 1
    /\ \E w \in WasmVals : dtor_calls[w] = 1

\* C7: a successful resource_clone(idx) returns an outer index that was not
\* live before the call and differs from idx; resource_get gives the same
\* representation for both; and dropping either one leaves the other valid,
\* resolving to the same inner resource, without running the destructor.
C7_CloneSharesResource ==
    (last.op = "canonical_abi.resource_clone" /\ last.ok) =>
        /\ last.ret # last.idx
        /\ last.ret \notin Occupied(pre.index_slab)
        /\ Occupied(index_slab) = Occupied(pre.index_slab) \cup {last.ret}
        /\ resource_get(ExportTables, last.ret).ok
        /\ resource_get(ExportTables, last.ret).out
               = resource_get(ExportTables, last.idx).out
        /\ resource_get(ExportTables, last.idx).out
               = resource_get(PreTables, last.idx).out
        /\ IndexGet(index_slab, last.ret) = IndexGet(index_slab, last.idx)
        /\ \A d \in {last.idx, last.ret} :
               LET o == IF d = last.idx THEN last.ret ELSE last.idx
                   r == resource_drop(ExportTables, d)
               IN  /\ r.ok /\ r.dtor = None
                   /\ ~resource_get(r.tables, d).ok
                   /\ resource_get(r.tables, o).ok
                   /\ resource_get(r.tables, o).out
                          = resource_get(ExportTables, o).out
                   /\ IndexGet(r.tables.index_slab, o)
                          = IndexGet(index_slab, o)

C7_Witness ==
    /\ last.op = "canonical_abi.resource_clone" /\ last.ok
    /\ last.ret < last.idx
    /\ resource_get(ExportTables, last.ret).out = Some(2)
    /\ resource_get(ExportTables, last.idx).out = Some(2)

\* A slot leaves a table only when an owned handle is lifted or a handle is
\* dropped, never when a borrowed handle is lifted or lowered.
SlotsLeaveOnlyByOwner ==
    /\ ~(Occupied(pre.slab) \subseteq Occupied(slab)) =>
           last.op = "resource_drop"
    /\ ~(Occupied(pre.index_slab) \subseteq Occupied(index_slab)) =>
           \/ last.op = "canonical_abi.resource_drop"
           \/ last.op = "export_return" /\ frame.fn.returns

\* Lifting a borrowed handle leaves the table as it was, and so does every
\* later step of a call of an imported function that takes a borrowed handle
\* and returns none: the call ends with the slots it started with.
LiftedBorrowKeepsTable ==
    /\ last.op = "lift_borrowed" => slab = pre.slab
    /\ (last.op \in {"host_call", "import_return"} /\ frame.fn.borrows
            /\ ~frame.fn.returns) =>
           slab = pre.slab /\ Occupied(slab) = frame.entry

\* C8 as stated: passing a handle as a borrow for one call never leaves a
\* slot behind.  Lifting a borrowed handle only looks it up; after a call
\* that passed a borrowed handle and no owned one (and in which the guest
\* made no table call of its own) the number of occupied slots is the number
\* before the call; only owned transfers remove slots.
C8_BorrowKeepsOccupancy ==
    /\ LiftedBorrowKeepsTable
    /\ SlotsLeaveOnlyByOwner
    /\ (last.op = "export_return" /\ frame.fn.borrows /\ ~frame.fn.returns
            /\ frame.quiet) =>
           Cardinality(Occupied(index_slab))
               = Cardinality(frame.entry)

\* C8, amended: the occupancy is kept by borrows the host lifts.  A borrow
\* the host lowers for the guest takes a reference and a fresh slot of the
\* index slab, and that slot is still occupied after the call unless the
\* guest dropped it or returned it as an owned handle.
C8_LoweredBorrowKeepsSlot ==
    /\ LiftedBorrowKeepsTable
    /\ SlotsLeaveOnlyByOwner
    /\ (last.op = "export_call" /\ frame.fn.borrows) =>
           /\ last.ok /\ frame.bidx = Some(last.ret)
           /\ last.ret \notin Occupied(pre.index_slab)
           /\ Occupied(index_slab) = Occupied(pre.index_slab) \cup {last.ret}
           /\ IndexGet(index_slab, last.ret) = Ok(last.idx)
           /\ RefCnt(resource_slab, last.idx)
                  = RefCnt(pre.resource_slab, last.idx) + 1
    /\ (last.op = "export_return" /\ frame.fn.borrows /\ frame.quiet) =>
           Occupied(index_slab)
                   \cup (IF frame.fn.returns /\ last.ok THEN {last.idx} ELSE {})
               = frame.entry \cup {frame.bidx[1]}

C8_Witness ==
    /\ last.op = "export_return" /\ frame.fn.borrows /\ ~frame.fn.returns
    /\ frame.quiet
    /\ frame.bidx[1] \in Occupied(index_slab)
    /\ frame.bidx[1] \notin frame.entry
    /\ Cardinality(Occupied(index_slab)) = Cardinality(frame.entry) + 1

MemOps ==
    {"_store", "_load", "_decode_utf8", "_encode_utf8", "_list_canon_lift",
     "_list_canon_lower", "load", "store"}

\* What the last memory operation must have done had it accessed the bytes
\* [a, a + last.ret): nothing when they do not lie inside the extent.
AccessedFrom(a) ==
    IF last.idx < 0 \/ last.idx + last.ret > DataSize
    THEN /\ ~last.ok
         /\ touched = {}
         /\ mem = pre.mem
         /\ last.out = None
    ELSE /\ last.ok
         /\ touched = Range(a, last.ret)
         /\ touched \subseteq DOMAIN mem
         /\ IF last.val # None
            THEN mem = WriteAt(pre.mem, a, last.val[1]) /\ last.out = None
            ELSE mem = pre.mem /\ last.out = Some(BytesAt(pre.mem, a, last.ret))

\* C10: a load, store or bulk copy of n bytes at an address with
\* address + n beyond the memory extent fails with the bounds error and
\* touches no byte; one that passes the check reads or writes exactly the
\* bytes [address, address + n), all inside the extent.
C10_ExactBytes == last.op \in MemOps => AccessedFrom(last.idx)

\* What the code does instead: the check is on the address, and an access
\* that passes it starts at the address rounded down to a multiple of the
\* element size; it still lies inside the extent, and it is the access of
\* C10 whenever the address is aligned.
C10_BoundsChecked ==
    last.op \in MemOps =>
        /\ AccessedFrom(IF last.op \in {"load", "store"} THEN last.idx
                        ELSE last.idx - (last.idx % last.size))
        /\ last.idx % last.size = 0 => AccessedFrom(last.idx)

C10_Misaligned ==
    /\ last.op = "_load" /\ last.ok /\ last.size = 4 /\ last.idx = 1
    /\ touched = Range(0, 4)

\* ------------------------------------------- values crossing the boundary

\* How far around each boundary value the core integers of the model reach.
Slack == 1

RECURSIVE Pow2(_)
Pow2(n) == IF n = 0 THEN 1 ELSE 2 * Pow2(n - 1)

\* i32::MAX and i32::MIN, the ends of a core integer.
I32Max == (Pow2(30) - 1) * 2 + 1
I32Min == (0 - I32Max) - 1

\* The integer types narrower than a core integer.
IntTypes == {"u8", "s8", "u16", "s16"}
Width(ty) == IF ty \in {"u8", "s8"} THEN 8 ELSE 16
Signed(ty) == ty \in {"s8", "s16"}

\* {ty}::MIN and {ty}::MAX
TyMin(ty) == IF Signed(ty) THEN 0 - Pow2(Width(ty) - 1) ELSE 0
TyMax(ty) == IF Signed(ty) THEN Pow2(Width(ty) - 1) - 1 ELSE Pow2(Width(ty)) - 1

\* The low w bits of x, and what a bit pattern of type ty stands for.
Truncate(w, x) == x % Pow2(w)
Interpret(ty, p) ==
    IF Signed(ty) /\ p >= Pow2(Width(ty) - 1) THEN p - Pow2(Width(ty)) ELSE p

\* `wit_bindgen_wasmer::rt::as_i32({})`: the value's bits, zero-extended for
\* an unsigned type and sign-extended for a signed one.
as_i32(ty, v) == Interpret(ty, Truncate(Width(ty), v))

BadInt == "out-of-bounds integer conversion"

\* try_from_truncating: `{} as {cvt}` with no check.
try_from_truncating(ty, x) == Ok(Interpret(ty, Truncate(Width(ty), x)))
\* `{cvt}::try_from({}).map_err(bad_int)?`
try_from(ty, x) ==
    IF x < TyMin(ty) \/ x > TyMax(ty)
    THEN Err(BadInt)
    ELSE Ok(Interpret(ty, Truncate(Width(ty), x)))

\* The core integers a guest may pass: around zero, around every end of a
\* narrow type, and the two ends of i32.
Around(b) == (b - Slack) .. (b + Slack)
Ends == {0} \cup {TyMin(ty) : ty \in IntTypes} \cup {TyMax(ty) : ty \in IntTypes}
CoreInts == UNION {Around(b) : b \in Ends} \cup {I32Min, I32Max}

\* The native values of a narrow type the host may pass.
NativeInts(ty) == {v \in CoreInts : TyMin(ty) <= v /\ v <= TyMax(ty)}

\* A value on its way: ty its type, orig the native value the host lowered
\* (None when the core value comes from the guest), core the core value,
\* native the lifted value and err the error of the lift.
Crossing(stage, ty, orig, core, native, err) ==
    [stage |-> stage, ty |-> ty, orig |-> orig, core |-> core,
     native |-> native, err |-> err]

ConvInit ==
    /\ IdleSlab
    /\ in_import = TRUE
    /\ pc = "guest"
    /\ IdleCall
    /\ IdleExport
    /\ IdleMem
    /\ IdleGen

\* No value is between its lowering and its lift.
NoneCrossing == conv.stage # "lowered"

ConvIdle ==
    UNCHANGED <<slabVars, callVars, exportVars, memVars, gen, layout,
                deps>>

\* The host lowers the native integer v of type ty.
LowerInt(ty, v) ==
    /\ NoneCrossing
    /\ conv' = Crossing("lowered", ty, Some(v), Some(as_i32(ty, v)), None,
                        "none")
    /\ ConvIdle

\* The guest passes the core integer i where a ty is expected.
GuestInt(ty, i) ==
    /\ NoneCrossing
    /\ conv' = Crossing("lowered", ty, None, Some(i), None, "none")
    /\ ConvIdle

\* The host lifts the core integer into the narrow type.
LiftInt ==
    /\ conv.stage = "lowered"
    /\ conv.ty \in IntTypes
    /\ LET r == try_from(conv.ty, conv.core[1]) IN
       conv' = [conv EXCEPT !.stage = "lifted", !.native = r.val,
                            !.err = r.err]
    /\ ConvIdle

\* ----------------------------------------------------------------- char

\* 0x10ffff, 0xd800 and 0xdfff
CharMax == 1114111
SurrogateLo == 55296
SurrogateHi == 57343

\* A char, by its code point.
Char(cp) == [cp |-> cp]

\* `val as u32`: the top bit and the 31 bits below it.
AsU32(x) == [top |-> x < 0, low |-> IF x < 0 THEN x - I32Min ELSE x]

InvalidChar == "char value out of valid range"
NotAValidChar == "TypeError: not a valid char"
ChrOutOfRange == "ValueError: chr() arg not in range(0x110000)"

\* char::from_u32
from_u32(u) ==
    IF u.top \/ u.low > CharMax \/ (SurrogateLo <= u.low /\ u.low <= SurrogateHi)
    THEN None
    ELSE Some(Char(u.low))

\* `char_from_i32({})?`
char_from_i32(x) ==
    LET c == from_u32(AsU32(x)) IN
    IF c = None THEN Err(InvalidChar) ELSE Ok(c[1])

\* Python's chr
chr(i) == IF i < 0 \/ i > CharMax THEN Err(ChrOutOfRange) ELSE Ok(Char(i))

\* _validate_guest_char_no_surrogates: only the upper end is tested.
_validate_guest_char_no_surrogates(i) ==
    IF i > CharMax THEN Err(NotAValidChar) ELSE chr(i)
\* def _validate_guest_char(i: int) -> str:
\*     if i > 0x10ffff or (i >= 0xd800 and i <= 0xdfff):
\*         raise TypeError('not a valid char');
\*     return chr(i)
_validate_guest_char(i) ==
    IF i > CharMax \/ (i >= SurrogateLo /\ i <= SurrogateHi)
    THEN Err(NotAValidChar)
    ELSE chr(i)

\* The core integers a guest may pass for a char.
CharEnds == {0, SurrogateLo, SurrogateHi, CharMax}
CharInts == UNION {Around(b) : b \in CharEnds} \cup {I32Min, I32Max}

\* The guest passes the core integer i where a char is expected.
GuestChar(i) ==
    /\ NoneCrossing
    /\ conv' = Crossing("lowered", "char", None, Some(i), None, "none")
    /\ ConvIdle

\* The Rust host lifts it.
LiftChar ==
    /\ conv.stage = "lowered"
    /\ conv.ty = "char"
    /\ LET r == char_from_i32(conv.core[1]) IN
       conv' = [conv EXCEPT !.stage = "lifted", !.native = r.val,
                            !.err = r.err]
    /\ ConvIdle

\* The Python host lifts it.
PyLiftChar ==
    /\ conv.stage = "lowered"
    /\ conv.ty = "char"
    /\ LET r == _validate_guest_char(conv.core[1]) IN
       conv' = [conv EXCEPT !.stage = "lifted", !.native = r.val,
                            !.err = r.err]
    /\ ConvIdle

\* ------------------------------------------- bool, enum, variant and kin

\* The unit value `()` and a native value of a type with cases.
Unit == [unit |-> TRUE]
CaseValue(name, payload) == [name |-> name, payload |-> payload]

\* A declared case: its name and the type of its payload.
Case(name, ty) == [name |-> name, ty |-> ty]

\* The types with cases of the interface at hand:
\*     enum e { a, b, c }
\*     variant v { a, b(u32), c }
\*     union u { u32, u32 }
\* next to bool, option<u32> and expected<u32, unit>.
Enum_E == <<Case("A", "unit"), Case("B", "unit"), Case("C", "unit")>>
Variant_V == <<Case("A", "unit"), Case("B", "u32"), Case("C", "unit")>>
Union_U == <<Case("V0", "u32"), Case("V1", "u32")>>
CaseTypes == {"bool", "option", "expected", "E", "V", "U"}

\* One arm of a generated match: the case it builds and the type of the
\* payload its block lifts, "none" for an arm that builds no payload.
Arm(name, ty) == [name |-> name, ty |-> ty]

\* `0 => false, 1 => true`
BoolFromI32 == <<Arm("false", "none"), Arm("true", "none")>>
\* `0 => None, 1 => Some({some})`
OptionLift == <<Arm("None", "none"), Arm("Some", "u32")>>
\* `0 => Ok({ok}), 1 => Err({err})`
ExpectedLift == <<Arm("Ok", "u32"), Arm("Err", "unit")>>
\* `{i} => {name}::{case}` for every case of the enum
EnumLift(cases) == [i \in 1 .. Len(cases) |-> Arm(cases[i].name, "none")]
\* `{i} => {name}::{case}{block}`, the block in parentheses unless the case
\* holds the unit
VariantLift(cases) ==
    [i \in 1 .. Len(cases) |->
        Arm(cases[i].name,
            IF cases[i].ty # "unit" THEN cases[i].ty ELSE "none")]
\* `{i} => {name}::{case_name}({block})`
UnionLift(cases) == [i \in 1 .. Len(cases) |-> Arm(cases[i].name, cases[i].ty)]

\* The arms the generator writes for a type, and the name in the error.
ArmsOf(ty) ==
    CASE ty = "bool" -> BoolFromI32
      [] ty = "option" -> OptionLift
      [] ty = "expected" -> ExpectedLift
      [] ty = "E" -> EnumLift(Enum_E)
      [] ty = "V" -> VariantLift(Variant_V)
      [] ty = "U" -> UnionLift(Union_U)

\* invalid_variant(name); the runtime writes the name between backticks.
invalid_variant(name) == "invalid discriminant for " \o name

\* The block of a payload: UnitLift pushes `()`, U32FromI32 is `{} as u32`.
LiftPayload(ty, slot) == IF ty = "unit" THEN Unit ELSE AsU32(slot)

\* What an arm evaluates to.
RunArm(arm, slot) ==
    CaseValue(arm.name,
              IF arm.ty = "none" THEN None ELSE Some(LiftPayload(arm.ty, slot)))

\* ExecMatchLastArmDefault: the last arm stands for every other value.
ExecMatchLastArmDefault(arms, name, d, slot) ==
    IF \E i \in 1 .. Len(arms) : i - 1 = d
    THEN Ok(RunArm(arms[d + 1], slot))
    ELSE Ok(RunArm(arms[Len(arms)], slot))
\* The generated `match {op0} { 0 => .., 1 => .., _ => return
\* Err(invalid_variant(name)) }` run on the discriminant d.
ExecMatch(arms, name, d, slot) ==
    IF \E i \in 1 .. Len(arms) : i - 1 = d
    THEN Ok(RunArm(arms[d + 1], slot))
    ELSE Err(invalid_variant(name))

\* The discriminants and payload slots a guest may pass.
DiscInts == UNION {Around(b) : b \in {0, 1, 2, 3}} \cup {I32Min, I32Max}
SlotInts == {0, 42}

\* The guest passes a discriminant and a payload slot where a ty is
\* expected.
GuestCase(ty, d, slot) ==
    /\ NoneCrossing
    /\ conv' = Crossing("lowered", ty, None, <<d, slot>>, None, "none")
    /\ ConvIdle

\* The host lifts them.
LiftCase ==
    /\ conv.stage = "lowered"
    /\ conv.ty \in CaseTypes
    /\ LET r == ExecMatch(ArmsOf(conv.ty), conv.ty, conv.core[1],
                          conv.core[2])
       IN  conv' = [conv EXCEPT !.stage = "lifted", !.native = r.val,
                                !.err = r.err]
    /\ ConvIdle

\* ---------------------------------------------------------------- flags

\* The bits of a core integer, and the most flags the model sets at once.
WordBits == 32
MaxSet == 2

\* The flags types of the interface at hand, by the number of flags they
\* declare. A flags value, like every integer of this part, is the set of
\* the positions of its one bits.
FlagTypes == {"flags3", "flags32", "flags40", "flags64"}
FlagCount(ty) ==
    CASE ty = "flags3" -> 3
      [] ty = "flags32" -> 32
      [] ty = "flags40" -> 40
      [] ty = "flags64" -> 64

\* flags.repr().count(): the core integers of a flags type.
ReprCount(n) == IF n <= 16 THEN 1 ELSE (n + (WordBits - 1)) \div WordBits

\* RustFlagsRepr::new(flags): the width of the `bits` field.
ReprWidth(n) ==
    IF n <= 8 THEN 8
    ELSE IF n <= 16 THEN 16
    ELSE IF ReprCount(n) = 1 THEN 32
    ELSE IF ReprCount(n) = 2 THEN 64
    ELSE 128

\* `x >> k`, `x << k` in w bits, `x | y` and `x & !y`
Shr(x, k) == {b - k : b \in {c \in x : c >= k}}
Shl(x, k, w) == {b + k : b \in {c \in x : c + k < w}}
BitOr(x, y) == x \cup y
AndNot(x, y) == x \ y

\* `x as i32` of an unsigned x: the low 32 bits.
BitsAsI32(x) == {b \in x : b < WordBits}

\* `x as {repr}` of an i32 x: the low bits for a repr of at most 32 bits,
\* the sign bit copied into every higher bit for a wider one.
I32AsRepr(x, w) ==
    IF w <= WordBits
    THEN {b \in x : b < w}
    ELSE x \cup (IF (WordBits - 1) \in x THEN WordBits .. (w - 1) ELSE {})

\* `{name}::all().bits()`: flag i is `1 << i`.
AllBits(n) == 0 .. (n - 1)

InvalidFlags == "invalid flags specified"

\* validate_flags(bits, all, name, mk)
validate_flags(bits, all) ==
    IF AndNot(bits, all) # {} THEN Err(InvalidFlags) ELSE Ok(bits)

\* FlagsLower: `(flags{tmp}.bits >> {i * 32}) as i32` for every core
\* integer i of the type.
FlagsLower(n, bits) ==
    [k \in 1 .. ReprCount(n) |-> BitsAsI32(Shr(bits, (k - 1) * WordBits))]

\* The expression FlagsLift builds: `0 | (({op} as {repr}) << {i * 32})`
\* over the operands in order.
RECURSIVE CombineWords(_, _, _)
CombineWords(ops, k, w) ==
    IF k = 0 THEN {}
    ELSE BitOr(CombineWords(ops, k - 1, w),
               Shl(I32AsRepr(ops[k], w), (k - 1) * WordBits, w))

\* FlagsLift: validate_flags over the combined words.
FlagsLift(n, ops) ==
    validate_flags(CombineWords(ops, Len(ops), ReprWidth(n)), AllBits(n))

\* The bit positions the model sets: the ends of each byte-sized storage
\* and of each core integer.
BitEnds == {0, 2, 3, 7, 8, 31, 32, 39, 40, 63}
SmallSets(S) == {x \in SUBSET S : Cardinality(x) <= MaxSet}

\* The values of a flags type the host may hold, and the core integers a
\* guest may pass.
NativeFlags(ty) == SmallSets(BitEnds \cap AllBits(FlagCount(ty)))
CoreWords == SmallSets({b \in BitEnds : b < WordBits})
HighWords == {x \in CoreWords : Cardinality(x) <= 1}

\* The host lowers the flags value bits.
LowerFlags(ty, bits) ==
    /\ NoneCrossing
    /\ conv' = Crossing("lowered", ty, Some(bits),
                        FlagsLower(FlagCount(ty), bits), None, "none")
    /\ ConvIdle

\* The guest passes core integers where a flags value is expected.
GuestFlags(ty, ops) ==
    /\ NoneCrossing
    /\ Len(ops) = ReprCount(FlagCount(ty))
    /\ conv' = Crossing("lowered", ty, None, ops, None, "none")
    /\ ConvIdle

\* The host lifts them.
LiftFlags ==
    /\ conv.stage = "lowered"
    /\ conv.ty \in FlagTypes
    /\ LET r == FlagsLift(FlagCount(conv.ty), conv.core) IN
       conv' = [conv EXCEPT !.stage = "lifted", !.native = r.val,
                            !.err = r.err]
    /\ ConvIdle

ConvNext ==
    \/ \E ty \in IntTypes : \E v \in NativeInts(ty) : LowerInt(ty, v)
    \/ \E ty \in IntTypes : \E i \in CoreInts : GuestInt(ty, i)
    \/ LiftInt
    \/ \E i \in CharInts : GuestChar(i)
    \/ LiftChar
    \/ PyLiftChar
    \/ \E ty \in CaseTypes : \E d \in DiscInts : \E slot \in SlotInts :
           GuestCase(ty, d, slot)
    \/ LiftCase
    \/ \E ty \in FlagTypes : \E bits \in NativeFlags(ty) : LowerFlags(ty, bits)
    \/ \E ty \in FlagTypes : \E w1 \in CoreWords : GuestFlags(ty, <<w1>>)
    \/ \E ty \in FlagTypes : \E w1 \in CoreWords : \E w2 \in HighWords :
           GuestFlags(ty, <<w1, w2>>)
    \/ LiftFlags

ConvSpec == ConvInit /\ [][ConvNext]_vars

\* -------------------------------------------------------- the generator

\* The most blocks one function opens, the deepest they nest, and the most
\* strings pushed while one function is compiled.
MaxBlocks == 2
MaxDepth == 2
MaxEmit == 2

\* Type::Unit, Type::U32 .. and Type::Id(id)
Prim(p) == [prim |-> p]
TypeId(id) == [id |-> id]
IsId(t) == DOMAIN t = {"id"}

\* iface.types: the interface of the custom_errors test,
\*     enum errno { bad1, bad2 }
\*     foo: func()
\*     bar: func() -> expected<unit, u32>
\*     baz: func() -> expected<u32, errno>
\* and next to it a result with an unnamed error type, a named expected
\* and a synonym of it:
\*     qux: func() -> expected<u32, tuple<u32, u32>>
\*     type res = expected<u32, errno>
\*     type res2 = res
\*     quux: func() -> res
\*     corge: func() -> res2
TypeDef(kind, name, ok, err) == [kind |-> kind, name |-> name, ok |-> ok, err |-> err]
Types ==
    <<TypeDef("Enum", Some("errno"), None, None),
      TypeDef("Expected", None, Some(Prim("unit")), Some(Prim("u32"))),
      TypeDef("Expected", None, Some(Prim("u32")), Some(TypeId(1))),
      TypeDef("Tuple", None, None, None),
      TypeDef("Expected", None, Some(Prim("u32")), Some(TypeId(4))),
      TypeDef("Expected", Some("res"), Some(Prim("u32")), Some(TypeId(1))),
      TypeDef("Type", Some("res2"), Some(TypeId(6)), None)>>

\* iface.functions, in order.
Function(name, result) == [name |-> name, result |-> result]
InterfaceFuncs ==
    <<Function("foo", Prim("unit")),
      Function("bar", TypeId(2)),
      Function("baz", TypeId(3)),
      Function("qux", TypeId(5)),
      Function("quux", TypeId(6)),
      Function("corge", TypeId(7))>>

\* Async::None, Async::All, Async::Only(list)
Async(kind, list) == [kind |-> kind, list |-> list]
includes(a, name) ==
    CASE a.kind = "None" -> FALSE
      [] a.kind = "All" -> TRUE
      [] a.kind = "Only" -> name \in a.list
is_none(a) == a.kind = "None"

\* Opts: the options the generator is built with.
Opts(custom_error, async_) == [custom_error |-> custom_error, async_ |-> async_]
AllOpts ==
    {Opts(c, a) : c \in BOOLEAN,
                  a \in {Async("None", {}), Async("All", {}),
                         Async("Only", {"bar"})}}

\* FunctionRet
FunctionRet(kind, ok, err) == [kind |-> kind, ok |-> ok, err |-> err]
Normal == FunctionRet("Normal", None, None)
CustomToTrap == FunctionRet("CustomToTrap", None, None)

\* classify_fn_ret_by_kind: every expected result goes to the error
\* channel, whatever its error type.
classify_fn_ret_by_kind(opts, f) ==
    IF ~opts.custom_error THEN Normal
    ELSE IF IsId(f.result) /\ Types[f.result.id].kind = "Expected"
    THEN FunctionRet("CustomToError", Types[f.result.id].ok, Some("error"))
    ELSE CustomToTrap
\* fn classify_fn_ret(&mut self, iface: &Interface, f: &Function)
classify_fn_ret(opts, f) ==
    IF ~opts.custom_error THEN Normal
    ELSE IF /\ IsId(f.result)
            /\ Types[f.result.id].kind = "Expected"
            /\ IsId(Types[f.result.id].err[1])
            /\ Types[Types[f.result.id].err[1].id].name # None
    THEN FunctionRet("CustomToError", Types[f.result.id].ok,
                     Types[Types[f.result.id].err[1].id].name)
    ELSE CustomToTrap

\* abi_variant_same: the mapping not reversed.
abi_variant_same(dir) == IF dir = "Import" THEN "GuestImport" ELSE "GuestExport"
\* fn abi_variant(dir: Direction) -> AbiVariant
abi_variant(dir) == IF dir = "Import" THEN "GuestExport" ELSE "GuestImport"

\* fn lift_lower(&self) -> LiftLower
lift_lower(imp) ==
    IF imp THEN "LiftArgsLowerResults" ELSE "LowerArgsLiftResults"

\* The expression finish_block makes of the operands: `()`, the operand
\* itself, or the operands in parentheses.
BlockExpr(operands) ==
    [paren |-> Len(operands) # 1, items |-> operands]

\* A finished block: `expr`, `{ src }` or `{ src expr }`.
Fragment(src, expr) == [src |-> src, expr |-> expr]

\* FunctionBindgen::new. History: opened records, for each open block,
\* what the buffer held at its push_block and what was pushed into the
\* block since; closed is the record of the block finished last, with the
\* fragments pending before it was finished; pushed and nblocks count the
\* strings and the blocks of the function; defs tells, for the function
\* body and for each open block, whether a definition of caller_memory was
\* written there with no call, block end or loop-element start since;
\* needs holds the needs_* flags of the generator the function is compiled
\* by (self.gen) and async_ its option; results is what the last
\* instruction returned, refs the runtime helpers the text written so far
\* names, access the last memory access written.
FunctionBindgen ==
    [src |-> <<>>, block_storage |-> <<>>, blocks |-> <<>>,
     async_intrinsic_called |-> FALSE, called |-> None,
     after_call |-> FALSE, caller_memory_available |-> FALSE,
     needs_memory |-> FALSE, needs_borrow_checker |-> FALSE,
     needs_functions |-> {}, needs |-> {}, async_ |-> Async("None", {}),
     results |-> <<>>, refs |-> {}, access |-> None,
     opened |-> <<>>, closed |-> None, pushed |-> 0, nblocks |-> 0,
     defs |-> <<FALSE>>,
     op |-> "new"]
NoFunction == [op |-> "none"]

\* fn push_str(&mut self, s: &str)
push_str(fb, s) ==
    [fb EXCEPT !.src = fb.src \o <<s>>,
               !.opened = IF fb.opened = <<>> THEN <<>>
                          ELSE [fb.opened EXCEPT ![Len(fb.opened)].since =
                                    fb.opened[Len(fb.opened)].since \o <<s>>],
               !.closed = None,
               !.pushed = fb.pushed + 1,
               !.op = "push_str"]

\* fn push_block(&mut self)
push_block(fb) ==
    [fb EXCEPT !.src = <<>>,
               !.block_storage = fb.block_storage \o <<fb.src>>,
               !.opened = fb.opened \o
                   <<[held |-> fb.src, blocks |-> fb.blocks, since |-> <<>>,
                      depth |-> Len(fb.block_storage)]>>,
               !.closed = None,
               !.nblocks = fb.nblocks + 1,
               !.defs = fb.defs \o <<FALSE>>,
               !.op = "push_block"]

\* finish_block_keep_src: the block's code is left in the buffer.
finish_block_keep_src(fb, operands) ==
    LET to_restore == fb.block_storage[Len(fb.block_storage)]
        src == fb.src
        expr == BlockExpr(operands)
    IN  [fb EXCEPT
            !.src = to_restore \o src,
            !.block_storage = SubSeq(fb.block_storage, 1,
                                     Len(fb.block_storage) - 1),
            !.blocks = fb.blocks \o
                <<IF src = <<>> THEN Fragment(<<>>, Some(expr))
                  ELSE IF operands = <<>> THEN Fragment(src, None)
                  ELSE Fragment(src, Some(expr))>>,
            !.opened = SubSeq(fb.opened, 1, Len(fb.opened) - 1),
            !.closed = Some([fb.opened[Len(fb.opened)] EXCEPT
                                !.blocks = fb.blocks]),
            !.caller_memory_available = FALSE,
            !.defs = [k \in 1 .. (Len(fb.defs) - 1) |-> FALSE],
            !.op = "finish_block"]
\* fn finish_block(&mut self, operands: &mut Vec<String>)
finish_block(fb, operands) ==
    LET to_restore == fb.block_storage[Len(fb.block_storage)]
        src == fb.src
        expr == BlockExpr(operands)
    IN  [fb EXCEPT
            !.src = to_restore,
            !.block_storage = SubSeq(fb.block_storage, 1,
                                     Len(fb.block_storage) - 1),
            !.blocks = fb.blocks \o
                <<IF src = <<>> THEN Fragment(<<>>, Some(expr))
                  ELSE IF operands = <<>> THEN Fragment(src, None)
                  ELSE Fragment(src, Some(expr))>>,
            !.opened = SubSeq(fb.opened, 1, Len(fb.opened) - 1),
            !.closed = Some([fb.opened[Len(fb.opened)] EXCEPT
                                !.blocks = fb.blocks]),
            !.caller_memory_available = FALSE,
            !.defs = [k \in 1 .. (Len(fb.defs) - 1) |-> FALSE],
            !.op = "finish_block"]

\* The strings the emitter pushes while one function is compiled are kept
\* apart by their order: the n-th string, and whether it is a call of an
\* intrinsic.
Str(n, what) == [n |-> n, what |-> what]

\* An entry point the generator has recorded: Import for a closure that
\* implements a guest import, a wrapper method for a guest export. body
\* holds what the emitter was handed and what it chose for the function.
EntryPoint(name, is_async, trait_signature, body) ==
    [name |-> name, is_async |-> is_async,
     trait_signature |-> trait_signature, body |-> body]

\* What iface.call is handed, what the emitter has found when the call
\* instruction is written, and the blocks left open when it returns.
Body(abi, mode) ==
    [abi |-> abi, mode |-> mode, lift_lower |-> None, dispatch |-> None,
     open_blocks |-> 0]

\* Opts::build
Build(opts) ==
    [stage |-> "built", opts |-> opts, dir |-> "none", next |-> 1,
     guest_imports |-> <<>>, guest_exports |-> <<>>,
     body |-> Body("none", "none"), f |-> NoFunction]

GenInit ==
    /\ IdleSlab
    /\ in_import = FALSE
    /\ pc = "host"
    /\ IdleCall
    /\ IdleExport
    /\ IdleMem
    /\ conv = NoConv
    /\ layout = NoLayout
    /\ deps = NoDeps
    /\ gen \in {Build(opts) : opts \in AllOpts}

GenIdle == UNCHANGED <<slabVars, pc, frame, borrow, panicked, exportVars,
                       memVars, conv, layout, deps>>

\* fn preprocess_one(&mut self, iface: &Interface, dir: Direction)
preprocess_one(dir) ==
    /\ gen.stage = "built"
    /\ in_import' = (abi_variant(dir) = "GuestImport")
    /\ gen' = [gen EXCEPT !.stage = "functions", !.dir = dir]
    /\ GenIdle

\* Generator::generate_one: after preprocess_one every function of the
\* interface is handed, in order, to import for Direction::Import and to
\* export for Direction::Export.
HandsOver(dir) ==
    /\ gen.stage = "functions"
    /\ gen.dir = dir
    /\ gen.next <= Len(InterfaceFuncs)

\* export, up to the call of the emitter: the closure of the next function
\* of an exported interface.
ExportBegin ==
    /\ HandsOver("Export")
    /\ gen' = [gen EXCEPT !.stage = "body",
                          !.body = Body("GuestImport", "LiftArgsLowerResults"),
                          !.f = FunctionBindgen]
    /\ UNCHANGED in_import
    /\ GenIdle

\* import, up to the call of the emitter: the wrapper of the next function
\* of an imported interface.
ImportBegin ==
    /\ HandsOver("Import")
    /\ gen' = [gen EXCEPT !.stage = "body",
                          !.body = Body("GuestExport", "LowerArgsLiftResults"),
                          !.f = FunctionBindgen]
    /\ UNCHANGED in_import
    /\ GenIdle

\* The emitter pushes a string.
EmitStr ==
    /\ gen.stage = "body"
    /\ gen.f.pushed < MaxEmit
    /\ gen' = [gen EXCEPT !.f = push_str(gen.f, Str(gen.f.pushed + 1, "code"))]
    /\ UNCHANGED in_import
    /\ GenIdle

\* The emitter opens the block of a case or of a list element.
EmitPushBlock ==
    /\ gen.stage = "body"
    /\ gen.f.nblocks < MaxBlocks
    /\ Len(gen.f.block_storage) < MaxDepth
    /\ gen' = [gen EXCEPT !.f = push_block(gen.f)]
    /\ UNCHANGED in_import
    /\ GenIdle

\* The emitter closes the innermost block, with the operands it leaves.
EmitFinishBlock(operands) ==
    /\ gen.stage = "body"
    /\ gen.f.block_storage # <<>>
    /\ gen' = [gen EXCEPT !.f = finish_block(gen.f, operands)]
    /\ UNCHANGED in_import
    /\ GenIdle

\* fn call_intrinsic(&mut self, name: &str, args: String)
call_intrinsic ==
    /\ gen.stage = "body"
    /\ gen.f.pushed < MaxEmit
    /\ IF ~is_none(gen.opts.async_)
       THEN gen' = [gen EXCEPT !.stage = "unimplemented",
                               !.f.async_intrinsic_called = TRUE]
       ELSE gen' = [gen EXCEPT !.f = push_str(gen.f, Str(gen.f.pushed + 1, "call"))]
    /\ UNCHANGED in_import
    /\ GenIdle

\* Instruction::CallInterface: the host function is called, the result
\* handled as classify_fn_ret says.
CallInterface ==
    /\ gen.stage = "body"
    /\ gen.dir = "Export"
    /\ gen.f.called = None
    /\ gen.f.block_storage = <<>>
    /\ gen' = [gen EXCEPT
                  !.f.called = Some("interface"),
                  !.f.op = "call",
                  !.f.closed = None,
                  !.body.lift_lower = Some(lift_lower(in_import)),
                  !.body.dispatch =
                      Some(classify_fn_ret(gen.opts, InterfaceFuncs[gen.next]))]
    /\ UNCHANGED in_import
    /\ GenIdle

\* Instruction::CallWasm: the guest's function is called.
CallWasm ==
    /\ gen.stage = "body"
    /\ gen.dir = "Import"
    /\ gen.f.called = None
    /\ gen.f.block_storage = <<>>
    /\ gen' = [gen EXCEPT
                  !.f.called = Some("wasm"),
                  !.f.op = "call",
                  !.f.closed = None,
                  !.body.lift_lower = Some(lift_lower(in_import))]
    /\ UNCHANGED in_import
    /\ GenIdle

\* The emitter returns: it has written the call, and it closes every block
\* it opens.
Returns(fb) == fb.called # None /\ fb.block_storage = <<>>

\* export, after the emitter: the trait signature, the async wrapping and
\* the entry in guest_imports.
ExportEnd ==
    /\ gen.stage = "body"
    /\ gen.dir = "Export"
    /\ Returns(gen.f)
    /\ LET func == InterfaceFuncs[gen.next]
           is_async == \/ gen.f.async_intrinsic_called
                       \/ includes(gen.opts.async_, func.name)
       IN  gen' = [gen EXCEPT
                      !.stage = "functions",
                      !.next = gen.next + 1,
                      !.guest_imports = gen.guest_imports \o
                          <<EntryPoint(func.name, is_async,
                                       classify_fn_ret(gen.opts, func),
                                       [gen.body EXCEPT !.open_blocks =
                                           Len(gen.f.block_storage)])>>,
                      !.f = NoFunction]
    /\ UNCHANGED in_import
    /\ GenIdle

\* import, after the emitter: the method in guest_exports.
ImportEnd ==
    /\ gen.stage = "body"
    /\ gen.dir = "Import"
    /\ Returns(gen.f)
    /\ LET func == InterfaceFuncs[gen.next]
           is_async == ~is_none(gen.opts.async_)
       IN  gen' = [gen EXCEPT
                      !.stage = "functions",
                      !.next = gen.next + 1,
                      !.guest_exports = gen.guest_exports \o
                          <<EntryPoint(func.name, is_async, Normal,
                                       [gen.body EXCEPT !.open_blocks =
                                           Len(gen.f.block_storage)])>>,
                      !.f = NoFunction]
    /\ UNCHANGED in_import
    /\ GenIdle

\* finish_one: every closure is registered; an async one is not
\* implemented.
finish_one ==
    /\ gen.stage = "functions"
    /\ gen.next > Len(InterfaceFuncs)
    /\ gen' = [gen EXCEPT !.stage =
                  IF \E i \in 1 .. Len(gen.guest_imports) :
                         gen.guest_imports[i].is_async
                  THEN "unimplemented"
                  ELSE "finished"]
    /\ UNCHANGED in_import
    /\ GenIdle

Operands == {<<>>, <<"x">>, <<"x", "y">>}

GenNext ==
    \/ \E dir \in {"Import", "Export"} : preprocess_one(dir)
    \/ ExportBegin
    \/ ImportBegin
    \/ EmitStr
    \/ EmitPushBlock
    \/ \E operands \in Operands : EmitFinishBlock(operands)
    \/ call_intrinsic
    \/ CallInterface
    \/ CallWasm
    \/ ExportEnd
    \/ ImportEnd
    \/ finish_one

GenSpec == GenInit /\ [][GenNext]_vars

\* ------------------------------------------------ lists across the memory

\* A list of n elements of `size` bytes each, as its bytes: every byte is
\* different, and different from every byte of a new memory.
ListBytes(n, size) == [i \in 1 .. (n * size) |-> Marker - i]

\* ListCanonLower in Rust: `ptr = func_realloc.call(0, 0, align, (vec.len()
\* as i32) * size)` and `store_many(ptr, &vec)`; p is what realloc returned.
ListCanonLower(m, bytes, size, p) ==
    LET r == RawMemStore(m, p, bytes) IN [r EXCEPT !.size = size]

\* ListCanonLift in Rust: `copy_slice(store, _memory, func_free, ptr, len,
\* align)` or `_bc.slice(ptr, len)`.
ListCanonLift(m, ptr, len, size) ==
    LET r == RawMemLoad(m, ptr, len * size) IN [r EXCEPT !.size = size]

ListInit == MemInit

\* The exploration's bound: a list is lowered into, or lifted from, a new
\* memory or one the step before found new.
RoomForList == mem = MemNew \/ pre.mem = MemNew

\* The Python host lowers a list of n elements into the guest's memory,
\* where realloc returned ptr.
PyLowerList(n, size, ptr) ==
    /\ RoomForList
    /\ MemStep("lower",
               _list_canon_lower(mem, ListBytes(n, size), size, ptr),
               Some(ListBytes(n, size)))

\* The Rust host does.
RustLowerList(n, size, ptr) ==
    /\ RoomForList
    /\ MemStep("ListCanonLower",
               ListCanonLower(mem, ListBytes(n, size), size, ptr),
               Some(ListBytes(n, size)))

\* The pair (ptr, len) the last lowering returned.
Lowered == [ptr |-> last.idx, len |-> last.ret \div last.size]

\* The Python host lifts the pair the last lowering returned, from the
\* memory as that lowering left it; val keeps the list that was lowered.
PyLiftLowered ==
    /\ last.op = "lower"
    /\ last.ok
    /\ MemStep("lift of lowered",
               _list_canon_lift(mem, Lowered.ptr, Lowered.len, last.size),
               last.val)

\* The Rust host does.
RustLiftLowered ==
    /\ last.op = "ListCanonLower"
    /\ last.ok
    /\ MemStep("ListCanonLift of lowered",
               ListCanonLift(mem, Lowered.ptr, Lowered.len, last.size),
               last.val)

\* ------------------------------------------- general list lowering/lifting

\* The generated code computes lengths and addresses in i32; the model's
\* i32 is as wide as its words.
Half == U32Mod \div 2
WrapI32(x) == ((x + Half) % U32Mod) - Half

\* Whether the bindings were built with overflow checks (`debug`: an
\* overflowing `*` or `+` panics) or without (`release`: it wraps).
Builds == {"debug", "release"}

\* `a * b` and `a + b` on i32: the wrapped value, or a panic.
Arith(build, x) ==
    [panic |-> build = "debug" /\ x # WrapI32(x), val |-> WrapI32(x)]

\* Lengths of the lists the host lowers: short ones, and ones whose size in
\* bytes does not fit an i32.
ListLens == (0 .. MaxLen) \cup {U32Mod \div 8, U32Mod \div 4}

\* Element i (from 0) of the list of n elements of `size` bytes.
Elem(n, size, i) == SubSeq(ListBytes(n, size), i * size + 1, (i + 1) * size)

\* Outcome of a general lowering or lifting: the memory it leaves, whether
\* it returned Ok, panicked, the allocation it asked for, the address of
\* every element it accessed, in order, and what it returned.
LRes(m, ok, panic, err, request, addrs, ret) ==
    [mem |-> m, ok |-> ok, panic |-> panic, err |-> err,
     request |-> request, addrs |-> addrs, ret |-> ret]

\* The loop of ListLower from element i on:
\*   for (i, e) in vec.into_iter().enumerate() {
\*       let base = result + (i as i32) * size;
\*       caller_memory.store(base + 0, e)?;
\*   }
RECURSIVE LowerElems(_, _, _, _, _, _, _, _)
LowerElems(m, i, n, size, result, build, request, addrs) ==
    IF i >= n
    THEN LRes(m, TRUE, FALSE, "none", request, addrs,
              Some(<<result, WrapI32(n)>>))
    ELSE LET prod == Arith(build, WrapI32(i) * size)
             base == Arith(build, result + prod.val)
             st == store(m, base.val, 0, Elem(n, size, i))
         IN  IF prod.panic \/ base.panic
             THEN LRes(m, FALSE, TRUE, "attempt to multiply with overflow",
                       request, addrs, None)
             ELSE IF ~st.ok
             THEN LRes(m, FALSE, FALSE, st.err, request, addrs, None)
             ELSE LowerElems(st.mem, i + 1, n, size, result, build, request,
                             Append(addrs, base.val))

\* ListLower: `let len = vec.len() as i32;`, `let result =
\* realloc.call(0, 0, align, len * size)?;`, then the loop; the results are
\* (result, len). p is what realloc returned.
ListLower(m, n, size, align, p, build) ==
    LET len == WrapI32(n)
        bytes == Arith(build, len * size)
    IN  IF bytes.panic
        THEN LRes(m, FALSE, TRUE, "attempt to multiply with overflow",
                  None, <<>>, None)
        ELSE LowerElems(m, 0, n, size, p, build,
                        Some([size |-> bytes.val, align |-> align]), <<>>)

\* The loop of ListLift from element i on:
\*   for i in 0..len {
\*       let base = base3 + i * size;
\*       result.push(_bc.load(base + 0)?);
\*   }
RECURSIVE LiftElems(_, _, _, _, _, _, _, _)
LiftElems(m, i, len, size, ptr, build, addrs, out) ==
    IF i >= len
    THEN LRes(m, TRUE, FALSE, "none", None, addrs, Some(out))
    ELSE LET prod == Arith(build, i * size)
             base == Arith(build, ptr + prod.val)
             ld == load(m, size, base.val, 0)
         IN  IF prod.panic \/ base.panic
             THEN LRes(m, FALSE, TRUE, "attempt to multiply with overflow",
                       None, addrs, None)
             ELSE IF ~ld.ok
             THEN LRes(m, FALSE, FALSE, ld.err, None, addrs, None)
             ELSE LiftElems(m, i + 1, len, size, ptr, build,
                            Append(addrs, base.val), Append(out, ld.out[1]))

\* ListLift: `let mut result = Vec::with_capacity(len as usize);`, which
\* panics when the i32 len is negative, then the loop.
ListLift(m, ptr, len, size, build) ==
    IF len < 0
    THEN LRes(m, FALSE, TRUE, "capacity overflow", None, <<>>, None)
    ELSE LiftElems(m, 0, len, size, ptr, build, <<>>, <<>>)

\* The record of a general lowering or lifting.
ListOp(op, n, size, ptr, build, r) ==
    [op |-> op, n |-> n, size |-> size, ptr |-> ptr, build |-> build,
     ok |-> r.ok, panic |-> r.panic, err |-> r.err, request |-> r.request,
     addrs |-> r.addrs, ret |-> r.ret]

ListStep(op, n, size, ptr, build, r) ==
    /\ mem' = r.mem
    /\ touched' = UNION {Range(r.addrs[k], size) : k \in DOMAIN r.addrs}
    /\ last' = ListOp(op, n, size, ptr, build, r)
    /\ pre' = Snapshot
    /\ UNCHANGED <<slab, dropped, live, freed, callVars, exportVars>>
    /\ UNCHANGED genVars

\* The host lowers a list of n elements whose type is not all-bits-valid;
\* an element of `size` bytes is aligned to its size.
RustLowerGeneral(n, size, p, build) ==
    /\ RoomForList
    /\ ListStep("ListLower", n, size, p, build,
                ListLower(mem, n, size, size, p, build))

\* The host lifts the list the guest names by (ptr, len), two i32.
RustLiftGeneral(ptr, len, size, build) ==
    /\ RoomForList
    /\ ListStep("ListLift", len, size, ptr, build,
                ListLift(mem, ptr, len, size, build))

ListNext ==
    \/ \E n \in 0 .. MaxLen : \E size \in ElemSizes : \E ptr \in Bases :
           PyLowerList(n, size, ptr)
    \/ \E n \in 0 .. MaxLen : \E size \in ElemSizes : \E ptr \in Bases :
           RustLowerList(n, size, ptr)
    \/ PyLiftLowered
    \/ RustLiftLowered
    \/ \E n \in ListLens : \E size \in ElemSizes : \E p \in Bases :
           \E build \in Builds : RustLowerGeneral(n, size, p, build)
    \/ \E ptr \in Bases : \E len \in Lens : \E size \in ElemSizes :
           \E build \in Builds : RustLiftGeneral(ptr, len, size, build)

ListSpec == ListInit /\ [][ListNext]_vars

\* ------------------------------------------------- type layout and flattening

\* How deep the type constructors are nested, and the largest number of
\* parameters of a function.
MaxNest == 2
MaxArgs == 20

\* A type of the interface: its constructor, a count (the bytes of a number,
\* the flags of a flags type, the cases of an enum) and its member types.
Ty(kind, n, args) == [kind |-> kind, n |-> n, args |-> args]

TUnit == Ty("unit", 0, <<>>)
TBool == Ty("bool", 1, <<>>)
TInt(bytes) == Ty("int", bytes, <<>>)
TFloat(bytes) == Ty("float", bytes, <<>>)
TChar == Ty("char", 4, <<>>)
TString == Ty("string", 0, <<>>)
THandle == Ty("handle", 4, <<>>)
TFlags(n) == Ty("flags", n, <<>>)
TEnum(n) == Ty("enum", n, <<>>)
TList(t) == Ty("list", 0, <<t>>)
TRecord(fields) == Ty("record", 0, fields)
TVariant(cases) == Ty("variant", 0, cases)
TOption(t) == Ty("option", 0, <<t>>)
TExpected(ok, err) == Ty("expected", 0, <<ok, err>>)

Max(a, b) == IF a >= b THEN a ELSE b

\* val rounded up to the next multiple of align
align_to(val, align) == ((val + align - 1) \div align) * align

SizeAlign(size, align) == [size |-> size, align |-> align]

\* The storage of a discriminant over n cases, and of n flags: the smallest
\* of 8, 16 and 32 bits that holds them; flags beyond 32 take 32-bit words.
discrim_size(n) == IF n <= 256 THEN 1 ELSE IF n <= 65536 THEN 2 ELSE 4
flags_size(n) ==
    IF n <= 8 THEN 1 ELSE IF n <= 16 THEN 2 ELSE ((n + 31) \div 32) * 4
flags_align(n) == IF n <= 8 THEN 1 ELSE IF n <= 16 THEN 2 ELSE 4

\* record_from_packed: no field is padded forward.
RECURSIVE record_from_packed(_, _, _, _, _)
record_from_packed(sa, i, end, align, offsets) ==
    IF i > Len(sa)
    THEN [size |-> align_to(end, align), align |-> align,
          offsets |-> offsets]
    ELSE record_from_packed(sa, i + 1, end + sa[i].size,
                            Max(align, sa[i].align), Append(offsets, end))
\* Fields in declaration order, each padded forward to its own alignment:
\* the offsets of the fields placed so far, the end of the last one and
\* the largest alignment.
RECURSIVE record_from(_, _, _, _, _)
record_from(sa, i, end, align, offsets) ==
    IF i > Len(sa)
    THEN [size |-> align_to(end, align), align |-> align,
          offsets |-> offsets]
    ELSE LET at == align_to(end, sa[i].align)
         IN  record_from(sa, i + 1, at + sa[i].size,
                         Max(align, sa[i].align), Append(offsets, at))
record(sa) == record_from(sa, 1, 0, 1, <<>>)

\* The largest size and the largest alignment of the members' layouts.
RECURSIVE max_of(_, _, _, _)
max_of(sa, i, size, align) ==
    IF i > Len(sa)
    THEN SizeAlign(size, align)
    ELSE max_of(sa, i + 1, Max(size, sa[i].size), Max(align, sa[i].align))

\* variant_unrounded: the size is not rounded up to the alignment.
variant_unrounded(sa) ==
    LET disc == discrim_size(Len(sa))
        payload == max_of(sa, 1, 0, 1)
    IN  SizeAlign(align_to(disc, payload.align) + payload.size,
                  Max(disc, payload.align))
\* A discriminant over the cases, then payload space for the largest case
\* at the largest case alignment.
variant(sa) ==
    LET disc == discrim_size(Len(sa))
        payload == max_of(sa, 1, 0, 1)
        align == Max(disc, payload.align)
    IN  SizeAlign(align_to(align_to(disc, payload.align) + payload.size,
                           align),
                  align)

\* SizeAlign::size and SizeAlign::align of a type.
RECURSIVE size_align(_)
size_align(t) ==
    LET members == [i \in DOMAIN t.args |-> size_align(t.args[i])]
    IN  CASE t.kind = "unit" -> SizeAlign(0, 1)
          [] t.kind \in {"bool", "int", "float", "char", "handle"} ->
                SizeAlign(t.n, t.n)
          [] t.kind \in {"string", "list"} -> SizeAlign(8, 4)
          [] t.kind = "flags" -> SizeAlign(flags_size(t.n), flags_align(t.n))
          [] t.kind = "enum" ->
                SizeAlign(discrim_size(t.n), discrim_size(t.n))
          [] t.kind = "record" ->
                SizeAlign(record(members).size, record(members).align)
          [] t.kind = "option" ->
                variant(<<SizeAlign(0, 1), members[1]>>)
          [] t.kind \in {"variant", "expected"} -> variant(members)
size_of(t) == size_align(t).size
align_of(t) == size_align(t).align

\* The offsets of a record's fields.
field_offsets(t) ==
    record([i \in DOMAIN t.args |-> size_align(t.args[i])]).offsets

\* Core scalar kinds; the kind that holds either of two.
join(a, b) ==
    IF a = b THEN a
    ELSE IF {a, b} = {"i32", "f32"} THEN "i32" ELSE "i64"

\* The slot-wise union of two flattened payloads, the narrower one padded.
join_all(x, y) ==
    [i \in 1 .. Max(Len(x), Len(y)) |->
        IF i > Len(x) THEN y[i]
        ELSE IF i > Len(y) THEN x[i] ELSE join(x[i], y[i])]

RECURSIVE concat(_, _)
concat(seqs, i) ==
    IF i > Len(seqs) THEN <<>> ELSE seqs[i] \o concat(seqs, i + 1)

RECURSIVE union_of(_, _)
union_of(seqs, i) ==
    IF i > Len(seqs) THEN <<>> ELSE join_all(seqs[i], union_of(seqs, i + 1))

\* flatten(t): the core scalars a value of type t is passed as.
RECURSIVE flatten(_)
flatten(t) ==
    LET members == [i \in DOMAIN t.args |-> flatten(t.args[i])]
    IN  CASE t.kind = "unit" -> <<>>
          [] t.kind \in {"bool", "char", "handle", "enum"} -> <<"i32">>
          [] t.kind = "int" -> IF t.n = 8 THEN <<"i64">> ELSE <<"i32">>
          [] t.kind = "float" -> IF t.n = 8 THEN <<"f64">> ELSE <<"f32">>
          [] t.kind \in {"string", "list"} -> <<"i32", "i32">>
          [] t.kind = "flags" -> [i \in 1 .. ((t.n + 31) \div 32) |-> "i32"]
          [] t.kind = "record" -> concat(members, 1)
          [] t.kind = "option" -> <<"i32">> \o members[1]
          [] t.kind \in {"variant", "expected"} ->
                <<"i32">> \o union_of(members, 1)

\* The most scalars parameters and results are passed as directly.
MAX_FLAT_PARAMS == 16
MAX_FLAT_RESULTS == 1

\* A function: its parameter types in order and its result type.
Func(params, result) == [params |-> params, result |-> result]

\* Interface::wasm_signature: parameters that flatten to more scalars than
\* MAX_FLAT_PARAMS are passed in memory behind one pointer; a result that
\* flattens to more than MAX_FLAT_RESULTS is written behind a pointer the
\* caller passes last.
wasm_signature_flat(func) ==
    LET params == concat([i \in DOMAIN func.params |->
                             flatten(func.params[i])], 1)
        results == flatten(func.result)
        retptr == Len(results) > MAX_FLAT_RESULTS
    IN  [params |-> IF retptr THEN Append(params, "i32") ELSE params,
         indirect_params |-> FALSE,
         results |-> IF retptr THEN <<>> ELSE results,
         retptr |-> retptr]
wasm_signature(func) ==
    LET params == concat([i \in DOMAIN func.params |->
                             flatten(func.params[i])], 1)
        indirect_params == Len(params) > MAX_FLAT_PARAMS
        passed == IF indirect_params THEN <<"i32">> ELSE params
        results == flatten(func.result)
        retptr == Len(results) > MAX_FLAT_RESULTS
    IN  [params |-> IF retptr THEN Append(passed, "i32") ELSE passed,
         indirect_params |-> indirect_params,
         results |-> IF retptr THEN <<>> ELSE results,
         retptr |-> retptr]

\* Wasmer::export: the closure takes one `arg{i}` per parameter of the
\* signature.
export_params(sig) == [i \in 1 .. Len(sig.params) |-> i - 1]

\* Types without members, and the ones a constructor puts beside a type.
Leaves ==
    {TUnit, TBool, TInt(1), TInt(2), TInt(4), TInt(8), TFloat(4), TFloat(8),
     TChar, TString, THandle, TFlags(3), TFlags(12), TFlags(33), TEnum(3),
     TEnum(257)}
Siblings == {TUnit, TInt(4), TInt(8)}
ArgCounts == {0, 1, 2, MaxArgs}


LayoutIdle ==
    UNCHANGED <<slabVars, callVars, exportVars, memVars, conv, gen, deps>>

\* Wasmer::preprocess_one: `self.sizes.fill(iface)` with type t declared,
\* nested `depth` constructors deep; no function is signed yet.
Filled(t, depth) ==
    [stage |-> "filled", ty |-> t, depth |-> depth, sizes |-> size_align(t),
     members |-> [i \in DOMAIN t.args |-> size_align(t.args[i])],
     offsets |-> IF t.kind = "record" THEN field_offsets(t) ELSE <<>>,
     func |-> None, sig |-> None, params |-> <<>>]

\* The interface declares a type without members.
LayoutInit ==
    /\ IdleSlab
    /\ in_import = FALSE
    /\ pc = "host"
    /\ IdleCall
    /\ IdleExport
    /\ IdleMem
    /\ conv = NoConv
    /\ gen = NoGen
    /\ deps = NoDeps
    /\ layout \in {Filled(t, 0) : t \in Leaves}

\* The interface declares a type over the one at hand.
Compose(t) ==
    /\ layout.stage = "filled"
    /\ layout.depth < MaxNest
    /\ layout' = Filled(t, layout.depth + 1)
    /\ LayoutIdle

ListOf == Compose(TList(layout.ty))
OptionOf == Compose(TOption(layout.ty))
ExpectedOf(s, first) ==
    Compose(IF first THEN TExpected(layout.ty, s)
            ELSE TExpected(s, layout.ty))
VariantOf(s, first) ==
    Compose(IF first THEN TVariant(<<layout.ty, s>>)
            ELSE TVariant(<<s, layout.ty>>))
RecordOf(s, place) ==
    Compose(CASE place = 1 -> TRecord(<<layout.ty, s>>)
              [] place = 2 -> TRecord(<<s, layout.ty>>)
              [] place = 3 -> TRecord(<<s, layout.ty, s>>))

\* Wasmer::export of a function over the type at hand: `let sig =
\* iface.wasm_signature(AbiVariant::GuestImport, func)` and the closure's
\* parameters.
Export(func) ==
    /\ layout.stage = "filled"
    /\ layout.depth < MaxNest
    /\ layout' = [layout EXCEPT !.stage = "signed",
                                !.func = Some(func),
                                !.sig = Some(wasm_signature(func)),
                                !.params =
                                    export_params(wasm_signature(func))]
    /\ LayoutIdle

\* n parameters of type p.
Params(n, p) == [i \in 1 .. n |-> p]

ExportReturning(n, p) == Export(Func(Params(n, p), layout.ty))
ExportTaking(n, r) == Export(Func(Params(n, layout.ty), r))

\* ------------------------------------------------ Dependencies.pyimport

Modules == {"typing", "collections"}
Items == {"Union", "List", "NamedTuple"}

\* `name: impl Into<Option<&str>>`: a whole module, or one item of it.
ImportNames == {None} \cup {Some(n) : n \in Items}

\* pyimports: BTreeMap<String, Option<BTreeSet<String>>>; a module without
\* an entry maps to None here, one with an entry to Some(its value).
NoImports == [m \in Modules |-> None]

\* pyimport_overwriting: the entry is inserted over the one there is.
pyimport_overwriting(pyimports, module, name) ==
    LET fresh == IF name # None THEN Some({}) ELSE None
    IN  [pyimports |->
             [pyimports EXCEPT ![module] =
                 IF name # None THEN Some(Some({name[1]})) ELSE Some(fresh)],
         panicked |-> FALSE]
\* pub fn pyimport(&mut self, module: &str, name: impl Into<Option<&str>>):
\* the map it leaves and whether an assertion failed.
pyimport(pyimports, module, name) ==
    LET inserted ==
            IF pyimports[module] = None
            THEN [pyimports EXCEPT ![module] =
                     Some(IF name # None THEN Some({}) ELSE None)]
            ELSE pyimports
        list == inserted[module][1]
    IN  IF name # None
        THEN IF list # None
             THEN [pyimports |->
                       [inserted EXCEPT ![module] =
                           Some(Some(list[1] \cup {name[1]}))],
                   panicked |-> FALSE]
             ELSE [pyimports |-> inserted, panicked |-> TRUE]
        ELSE [pyimports |-> inserted, panicked |-> list # None]

\* The generator's Dependencies: the map, the map before the last call,
\* that call, whether it panicked, and the history of the calls that
\* returned before it.
Deps(pyimports, before, call, failed, returned) ==
    [stage |-> "deps", pyimports |-> pyimports, before |-> before,
     call |-> call, panicked |-> failed, returned |-> returned]

DepsInit ==
    /\ IdleSlab
    /\ in_import = FALSE
    /\ pc = "host"
    /\ IdleCall
    /\ IdleExport
    /\ IdleMem
    /\ conv = NoConv
    /\ gen = NoGen
    /\ layout = NoLayout
    /\ deps = Deps(NoImports, NoImports, None, FALSE, {})

\* The generator asks for an import; a failed assertion ends it.
PyImport(module, name) ==
    /\ ~deps.panicked
    /\ LET r == pyimport(deps.pyimports, module, name)
       IN  deps' = Deps(r.pyimports, deps.pyimports,
                        Some(<<module, name>>), r.panicked,
                        deps.returned \cup
                            (IF deps.call = None THEN {}
                             ELSE {deps.call[1]}))
    /\ UNCHANGED <<slabVars, callVars, exportVars, memVars, conv, gen,
                   layout>>

DepsNext == \E module \in Modules : \E name \in ImportNames :
                PyImport(module, name)

DepsSpec == DepsInit /\ [][DepsNext]_vars


\* ----------------------------------------------------------- the emitter

\* The runtime helpers print_intrinsics can import, each by the name of its
\* needs_* flag.
Helpers ==
    {"RawMem", "char_from_i32", "invalid_variant", "bad_int",
     "validate_flags", "Le", "copy_slice"}

\* A piece of generated text: what it does, the memory expression it goes
\* through, and for a match the fragments of its arms.
Code(what, memory, arms) == [what |-> what, memory |-> memory, arms |-> arms]
Stmt(what) == Code(what, "none", <<>>)

\* self.gen.needs_{flag} = true
set_needs(fb, flag) == [fb EXCEPT !.needs = fb.needs \cup {flag}]

\* History: the text just written names the helper.
names(fb, helper) == [fb EXCEPT !.refs = fb.refs \cup {helper}]

\* History: a call, a block end or the start of a loop element lies behind
\* every definition of caller_memory written so far.
invalidate(fb) == [fb EXCEPT !.defs = [k \in DOMAIN fb.defs |-> FALSE]]

\* History: the text just written accesses memory through `memory`.
accesses(fb, memory) ==
    [fb EXCEPT !.access =
        Some([memory |-> memory,
              defined |-> \E k \in DOMAIN fb.defs : fb.defs[k],
              after_call |-> fb.called # None])]

\* memory_src defining caller_memory once per function.
memory_src_once(fb) ==
    IF in_import
    THEN IF ~fb.after_call
         THEN [f |-> [fb EXCEPT !.needs_borrow_checker = TRUE],
               memory |-> "_bc"]
         ELSE [f |-> IF ~fb.needs_memory
                     THEN [push_str([fb EXCEPT
                                        !.needs_memory = TRUE,
                                        !.caller_memory_available = TRUE],
                                    Stmt("let caller_memory"))
                           EXCEPT !.defs[Len(fb.defs)] = TRUE]
                     ELSE fb,
               memory |-> "caller_memory"]
    ELSE [f |-> [fb EXCEPT !.needs_memory = TRUE],
          memory |-> "unsafe _memory"]

\* fn memory_src(&mut self) -> String
memory_src(fb) ==
    IF in_import
    THEN IF ~fb.after_call
         THEN [f |-> [fb EXCEPT !.needs_borrow_checker = TRUE],
               memory |-> "_bc"]
         ELSE [f |-> IF ~fb.caller_memory_available
                     THEN [push_str([fb EXCEPT
                                        !.needs_memory = TRUE,
                                        !.caller_memory_available = TRUE],
                                    Stmt("let caller_memory"))
                           EXCEPT !.defs[Len(fb.defs)] = TRUE]
                     ELSE fb,
               memory |-> "caller_memory"]
    ELSE [f |-> [fb EXCEPT !.needs_memory = TRUE],
          memory |-> "unsafe _memory"]

\* fn call_intrinsic(&mut self, name: &str, args: String), as the
\* instructions use it; unimplemented!() ends the generator.
intrinsic(fb, name) ==
    IF ~is_none(fb.async_)
    THEN [fb EXCEPT !.async_intrinsic_called = TRUE, !.op = "unimplemented"]
    ELSE invalidate([push_str(fb, Stmt("func_" \o name \o ".call"))
                     EXCEPT !.caller_memory_available = FALSE])

\* fn load(&mut self, offset: i32, ty: &str, operands: &[String]) -> String
emit_load(fb) ==
    LET m == memory_src(fb) IN
    [accesses(names(push_str(set_needs(m.f, "RawMem"),
                             Code("load", m.memory, <<>>)), "RawMem"),
              m.memory)
     EXCEPT !.results = <<"load">>]

\* fn store(&mut self, offset: i32, method: &str, extra: &str, ..)
emit_store(fb) ==
    LET m == memory_src(fb) IN
    [accesses(names(push_str(set_needs(m.f, "RawMem"),
                             Code("store", m.memory, <<>>)), "RawMem"),
              m.memory)
     EXCEPT !.results = <<>>]

\* Instruction::ListCanonLower and Instruction::StringLower
canon_lower(fb, realloc) ==
    LET a == push_str([fb EXCEPT !.needs_functions = @ \cup {realloc}],
                      Stmt("let vec"))
        c == intrinsic(push_str(a, Stmt("let ptr =")), realloc)
        m == memory_src(c)
        s == push_str(m.f, Code("store_many", m.memory, <<>>))
    IN  IF c.op = "unimplemented" THEN c
        ELSE [accesses(names(set_needs(s, "RawMem"), "RawMem"), m.memory)
              EXCEPT !.needs_memory = TRUE, !.results = <<"ptr", "len">>]

\* Instruction::ListCanonLift and Instruction::StringLift
canon_lift(fb, free) ==
    IF free # None
    THEN LET a == set_needs([fb EXCEPT !.needs_memory = TRUE,
                                       !.needs_functions = @ \cup {free[1]}],
                            "copy_slice")
             s == push_str(push_str(a, Stmt("let ptr")), Stmt("let len"))
         IN  [accesses(names(s, "copy_slice"), "_memory")
              EXCEPT !.results = <<"copy_slice">>]
    ELSE LET a == [fb EXCEPT !.needs_borrow_checker = TRUE]
             s == push_str(push_str(a, Stmt("let ptr")), Stmt("let len"))
         IN  [accesses(s, "_bc") EXCEPT !.results = <<"_bc.slice">>]

\* One arm of a match: the case and the fragment written for it.
MatchArm(case, block) == [case |-> case, block |-> block]

\* self.blocks.drain(self.blocks.len() - cases.len()..) zipped with the
\* cases, in order.
drain(fb, cases) ==
    LET n == Len(fb.blocks)
        k == Len(cases)
    IN  [f |-> [fb EXCEPT !.blocks = SubSeq(fb.blocks, 1, n - k)],
         arms |-> [i \in 1 .. k |-> MatchArm(cases[i], fb.blocks[n - k + i])]]

\* let b = self.blocks.pop().unwrap(); let a = self.blocks.pop().unwrap();
\* with the fragments given to the cases the other way round.
pop2_swapped(fb, a, b) ==
    LET n == Len(fb.blocks) IN
    [f |-> [fb EXCEPT !.blocks = SubSeq(fb.blocks, 1, n - 2)],
     arms |-> <<MatchArm(a, fb.blocks[n]), MatchArm(b, fb.blocks[n - 1])>>]

\* let b = self.blocks.pop().unwrap(); let a = self.blocks.pop().unwrap();
pop2(fb, a, b) ==
    LET n == Len(fb.blocks) IN
    [f |-> [fb EXCEPT !.blocks = SubSeq(fb.blocks, 1, n - 2)],
     arms |-> <<MatchArm(a, fb.blocks[n - 1]), MatchArm(b, fb.blocks[n])>>]

\* let body = self.blocks.pop().unwrap();
pop1(fb) ==
    LET n == Len(fb.blocks) IN
    [f |-> [fb EXCEPT !.blocks = SubSeq(fb.blocks, 1, n - 1)],
     arms |-> <<MatchArm("body", fb.blocks[n])>>]

\* The lowering instructions write the match, the lifting instructions
\* return it.
lower_match(d, what) ==
    [push_str(d.f, Code(what, "none", d.arms)) EXCEPT !.results = <<"result">>]
lift_match(d, what) ==
    [d.f EXCEPT !.results = <<Code(what, "none", d.arms)>>,
                !.op = "lift", !.closed = None]

\* The `_ => return Err(invalid_variant(..))` arm of a lifting match.
checked(fb) == names(fb, "invalid_variant")

\* An instruction of the canonical ABI: its name, the cases of the type it
\* works on, the intrinsic it is to call.
Inst(name, cases, func) == [name |-> name, cases |-> cases, func |-> func]
Plain(name) == Inst(name, <<>>, None)

\* fn emit(&mut self, iface, inst, operands, results)
emit(fb, inst) ==
    CASE inst.name \in {"I32Load", "I64Load"} -> emit_load(fb)
      [] inst.name \in {"I32Store", "I64Store"} -> emit_store(fb)
      [] inst.name = "U8FromI32" ->
             [names(set_needs(fb, "bad_int"), "bad_int")
              EXCEPT !.results = <<"u8::try_from">>]
      [] inst.name = "CharFromI32" ->
             [names(set_needs(fb, "char_from_i32"), "char_from_i32")
              EXCEPT !.results = <<"char_from_i32">>]
      [] inst.name = "BoolFromI32" ->
             [checked(set_needs(fb, "invalid_variant"))
              EXCEPT !.results = <<"match">>]
      [] inst.name = "FlagsLift" ->
             [names(set_needs(fb, "validate_flags"), "validate_flags")
              EXCEPT !.results = <<"validate_flags">>]
      [] inst.name = "EnumLift" ->
             [checked(set_needs(fb, "invalid_variant"))
              EXCEPT !.results = <<"match">>]
      [] inst.name = "VariantLower" ->
             lower_match(drain(fb, inst.cases), "match variant")
      [] inst.name = "VariantLift" ->
             set_needs(checked(lift_match(drain(fb, inst.cases),
                                          "match variant")),
                       "invalid_variant")
      [] inst.name = "UnionLower" ->
             lower_match(drain(fb, inst.cases), "match union")
      [] inst.name = "UnionLift" ->
             checked(lift_match(drain(fb, inst.cases), "match union"))
      [] inst.name = "OptionLower" ->
             lower_match(pop2(fb, "none", "some"), "match option")
      [] inst.name = "OptionLift" ->
             LET d == pop2(fb, "none", "some") IN
             IF d.arms[1].block # Fragment(<<>>, Some(BlockExpr(<<>>)))
             THEN [fb EXCEPT !.op = "panic"]
             ELSE set_needs(checked(lift_match(d, "match option")),
                            "invalid_variant")
      [] inst.name = "ExpectedLower" ->
             lower_match(pop2(fb, "ok", "err"), "match expected")
      [] inst.name = "ExpectedLift" ->
             set_needs(checked(lift_match(pop2(fb, "ok", "err"),
                                          "match expected")),
                       "invalid_variant")
      [] inst.name \in {"ListCanonLower", "StringLower"} ->
             canon_lower(fb, inst.func[1])
      [] inst.name \in {"ListCanonLift", "StringLift"} ->
             canon_lift(fb, inst.func)
      [] inst.name = "ListLower" ->
             LET d == pop1(fb)
                 a == [d.f EXCEPT !.needs_functions = @ \cup {inst.func[1]}]
                 c == intrinsic(push_str(a, Stmt("let result =")),
                                inst.func[1])
             IN  IF c.op = "unimplemented" THEN c
                 ELSE [push_str(c, Code("for", "none", d.arms))
                       EXCEPT !.results = <<"result", "len">>]
      [] inst.name = "ListLift" ->
             LET d == pop1(fb)
                 l == [push_str(d.f, Code("for", "none", d.arms))
                       EXCEPT !.results = <<"result">>]
             IN  IF inst.func = None THEN l
                 ELSE LET c == intrinsic(l, inst.func[1]) IN
                      IF c.op = "unimplemented" THEN c
                      ELSE [c EXCEPT !.needs_functions = @ \cup {inst.func[1]}]
      [] inst.name = "IterElem" ->
             invalidate([fb EXCEPT !.caller_memory_available = FALSE,
                                   !.results = <<"e">>,
                                   !.op = "iter", !.closed = None])
      [] inst.name = "CallWasm" ->
             invalidate([push_str(fb, Stmt("self.func.call"))
                         EXCEPT !.after_call = TRUE,
                                !.caller_memory_available = FALSE,
                                !.called = Some("wasm")])
      [] inst.name = "CallInterface" ->
             [push_str(fb, Stmt("host.call"))
              EXCEPT !.after_call = TRUE,
                     !.called = Some("interface")]
      [] inst.name = "Malloc" ->
             LET a == [fb EXCEPT !.needs_functions = @ \cup {inst.func[1]}]
                 c == intrinsic(push_str(a, Stmt("let ptr =")), inst.func[1])
             IN  IF c.op = "unimplemented" THEN c
                 ELSE [c EXCEPT !.results = <<"ptr">>]


\* ------------------------------------------- lowering and lifting by case

\* The most branching constructors one function's types hold.
MaxCtors == 2

\* The branching instructions, each with the cases of a type it is emitted
\* for.
BranchInsts ==
    {Inst("VariantLower", <<"a", "b", "c">>, None),
     Inst("VariantLift", <<"a", "b">>, None),
     Inst("UnionLower", <<"0", "1">>, None),
     Inst("UnionLift", <<"0", "1", "2">>, None),
     Inst("OptionLower", <<"none", "some">>, None),
     Inst("OptionLift", <<"none", "some">>, None),
     Inst("ExpectedLower", <<"ok", "err">>, None),
     Inst("ExpectedLift", <<"ok", "err">>, None),
     Inst("ListLower", <<"body">>, Some("realloc")),
     Inst("ListLift", <<"body">>, None),
     Inst("ListLift", <<"body">>, Some("free"))}

\* A constructor the emitter is working on: the instruction that will
\* close it, its number among the constructors of the function, how many of
\* its cases are finished, whether a case is open, and history: the number
\* of pending fragments when it was begun and the fragment finished for
\* each case.
Ctor(inst, id, depth) ==
    [inst |-> inst, id |-> id, done |-> 0, open |-> FALSE,
     depth |-> depth, made |-> <<>>]

\* The operand a case's block leaves, kept apart from every other by the
\* constructor and the case.
Payload(c, k) == "e" \o ToString(c.id) \o "." \o ToString(k)

\* A function compiled down to its branching constructors.
Branching(imp, async_) ==
    [stage |-> "emit", in_import |-> imp,
     f |-> [FunctionBindgen EXCEPT !.async_ = async_],
     work |-> <<>>, count |-> 0, just |-> None]

BranchInit ==
    /\ IdleSlab
    /\ in_import \in BOOLEAN
    /\ pc = "host"
    /\ IdleCall
    /\ IdleExport
    /\ IdleMem
    /\ conv = NoConv
    /\ layout = NoLayout
    /\ deps = NoDeps
    /\ gen \in {Branching(in_import, a) :
                   a \in {Async("None", {}), Async("All", {})}}

\* The emitter runs until an instruction panics.
Emitting == gen.stage = "emit" /\ gen.f.op \notin {"panic", "unimplemented"}

Top == gen.work[Len(gen.work)]

\* The emitter comes to a value of a type with cases, at the top of the
\* function or inside the open case of another; the block of `none` holds
\* no code.
BeginCtor(inst) ==
    /\ Emitting
    /\ gen.count < MaxCtors
    /\ Len(gen.work) < MaxDepth
    /\ gen.work # <<>> =>
           /\ Top.open
           /\ Top.inst.cases[Top.done + 1] # "none"
    /\ gen' = [gen EXCEPT
                  !.work = Append(gen.work,
                                  Ctor(inst, gen.count + 1, Len(gen.f.blocks))),
                  !.count = gen.count + 1,
                  !.just = None]
    /\ UNCHANGED in_import
    /\ GenIdle

\* The emitter opens the block of the next case; the block of a list
\* element starts with Instruction::IterElem.
OpenCase ==
    /\ Emitting
    /\ gen.work # <<>>
    /\ ~Top.open
    /\ Top.done < Len(Top.inst.cases)
    /\ gen' = [gen EXCEPT
                  !.f = IF Top.inst.cases = <<"body">>
                        THEN emit(push_block(gen.f), Plain("IterElem"))
                        ELSE push_block(gen.f),
                  !.work[Len(gen.work)].open = TRUE,
                  !.just = None]
    /\ UNCHANGED in_import
    /\ GenIdle

\* The emitter closes the open case: a unit payload leaves no operand, any
\* other leaves its own.
CloseCase(unit) ==
    /\ Emitting
    /\ gen.work # <<>>
    /\ Top.open
    /\ unit <=> Top.inst.cases[Top.done + 1] \in {"none", "c"}
    /\ LET operands == IF unit THEN <<>>
                       ELSE <<Payload(Top, Top.done + 1)>>
           fb == finish_block(gen.f, operands)
       IN  gen' = [gen EXCEPT
                      !.f = fb,
                      !.work[Len(gen.work)] =
                          [Top EXCEPT !.open = FALSE,
                                      !.done = Top.done + 1,
                                      !.made = Append(Top.made,
                                                      fb.blocks[Len(fb.blocks)])],
                      !.just = None]
    /\ UNCHANGED in_import
    /\ GenIdle

\* Every case is finished: the emitter writes the branching instruction.
Branch ==
    /\ Emitting
    /\ gen.work # <<>>
    /\ ~Top.open
    /\ Top.done = Len(Top.inst.cases)
    /\ gen' = [gen EXCEPT
                  !.f = emit(gen.f, Top.inst),
                  !.work = SubSeq(gen.work, 1, Len(gen.work) - 1),
                  !.just = Some(Top)]
    /\ UNCHANGED in_import
    /\ GenIdle

BranchNext ==
    \/ \E inst \in BranchInsts : BeginCtor(inst)
    \/ OpenCase
    \/ \E unit \in BOOLEAN : CloseCase(unit)
    \/ Branch

BranchSpec == BranchInit /\ [][BranchNext]_vars


\* ------------------------------------------------- memory in a function

\* The most instructions the emitter writes for one function.
MaxInsts == 2

\* The canonical ABI lifts the arguments and lowers the results of a guest
\* import, and the other way round for a guest export.
Lifting(fb) == in_import <=> ~fb.after_call

\* The instructions that reach memory or call the guest, as they come
\* while a value is lifted or lowered.
LiftInsts(imp) ==
    {Plain("I32Load"),
     Inst("ListCanonLift", <<>>, IF imp THEN None ELSE Some("free")),
     Inst("StringLift", <<>>, IF imp THEN None ELSE Some("free"))}
LowerInsts ==
    {Plain("I32Store"),
     Inst("ListCanonLower", <<>>, Some("realloc")),
     Inst("StringLower", <<>>, Some("realloc")),
     Inst("Malloc", <<>>, Some("realloc"))}
MemInsts == LiftInsts(TRUE) \cup LiftInsts(FALSE) \cup LowerInsts

\* A function being compiled: the instructions written and the kinds of
\* the blocks that are open.
Closure(async_) ==
    [stage |-> "closure", f |-> [FunctionBindgen EXCEPT !.async_ = async_],
     count |-> 0, kinds |-> <<>>]

ClosureInit ==
    /\ IdleSlab
    /\ in_import \in BOOLEAN
    /\ pc = "host"
    /\ IdleCall
    /\ IdleExport
    /\ IdleMem
    /\ conv = NoConv
    /\ layout = NoLayout
    /\ deps = NoDeps
    /\ gen \in {Closure(a) : a \in {Async("None", {}), Async("All", {})}}

Writing == gen.stage = "closure" /\ gen.f.op # "unimplemented"

\* The emitter writes an instruction that reaches memory or an intrinsic.
Write(inst) ==
    /\ Writing
    /\ gen.count < MaxInsts
    /\ inst \in IF Lifting(gen.f) THEN LiftInsts(in_import) ELSE LowerInsts
    /\ gen' = [gen EXCEPT !.f = emit(gen.f, inst), !.count = gen.count + 1]
    /\ UNCHANGED in_import
    /\ GenIdle

\* The emitter opens the block of a case, or of a list element, which
\* starts with Instruction::IterElem.
WriteBlock(kind) ==
    /\ Writing
    /\ gen.f.nblocks < MaxBlocks
    /\ Len(gen.f.block_storage) < MaxDepth
    /\ gen' = [gen EXCEPT
                  !.f = IF kind = "body"
                        THEN emit(push_block(gen.f), Plain("IterElem"))
                        ELSE push_block(gen.f),
                  !.kinds = Append(gen.kinds, kind)]
    /\ UNCHANGED in_import
    /\ GenIdle

\* The emitter closes the innermost block; the block of a list element is
\* followed by the list instruction, which takes the fragment.
WriteEnd ==
    /\ Writing
    /\ gen.f.block_storage # <<>>
    /\ LET kind == gen.kinds[Len(gen.kinds)]
           fb == finish_block(gen.f, <<"x">>)
           inst == IF Lifting(gen.f)
                   THEN Inst("ListLift", <<"body">>,
                             IF in_import THEN None ELSE Some("free"))
                   ELSE Inst("ListLower", <<"body">>, Some("realloc"))
       IN  gen' = [gen EXCEPT
                      !.f = IF kind = "body" THEN emit(fb, inst) ELSE fb,
                      !.kinds = SubSeq(gen.kinds, 1, Len(gen.kinds) - 1)]
    /\ UNCHANGED in_import
    /\ GenIdle

\* The call: the host function for a guest import, the wasm function for a
\* guest export.
WriteCall ==
    /\ Writing
    /\ gen.f.called = None
    /\ gen.f.block_storage = <<>>
    /\ gen' = [gen EXCEPT
                  !.f = emit(gen.f, IF in_import THEN Plain("CallInterface")
                                    ELSE Plain("CallWasm"))]
    /\ UNCHANGED in_import
    /\ GenIdle

ClosureNext ==
    \/ \E inst \in MemInsts : Write(inst)
    \/ \E kind \in {"case", "body"} : WriteBlock(kind)
    \/ WriteEnd
    \/ WriteCall

ClosureSpec == ClosureInit /\ [][ClosureNext]_vars


\* ------------------------------------------ the functions of an interface

\* Wasmer: the requirements the generator gathers over an interface.
Wasmer(async_, handles) ==
    [needs |-> {}, needs_memory |-> FALSE, needs_functions |-> {},
     all_needed_handles |-> handles, async_ |-> async_]

\* What the ABI walker does with the emitter: it opens a block, closes one
\* with the operands the block leaves, or hands over an instruction.
Step(kind, inst, operands) ==
    [kind |-> kind, inst |-> inst, operands |-> operands]
Emit(inst) == Step("emit", inst, <<>>)

\* One block per case, in declaration order; the block of a list element
\* starts with IterElem, the payload of none is unit.
RECURSIVE CaseBlocks(_)
CaseBlocks(cases) ==
    IF cases = <<>> THEN <<>>
    ELSE <<Step("push_block", Plain("none"), <<>>)>>
         \o (IF Head(cases) = "body" THEN <<Emit(Plain("IterElem"))>>
             ELSE <<>>)
         \o <<Step("finish_block", Plain("none"),
                   IF Head(cases) = "none" THEN <<>> ELSE <<"e">>)>>
         \o CaseBlocks(Tail(cases))

\* The steps that lift or lower one value with the instruction.
Steps(inst) == CaseBlocks(inst.cases) \o <<Emit(inst)>>

\* The instructions that lift a value and those that lower one.
ScalarLifts ==
    {Plain("U8FromI32"), Plain("CharFromI32"), Plain("BoolFromI32"),
     Plain("FlagsLift"), Plain("EnumLift")}
LiftNames ==
    {"I32Load", "ListCanonLift", "StringLift", "VariantLift", "UnionLift",
     "OptionLift", "ExpectedLift", "ListLift"}
ValueInsts == BranchInsts \cup MemInsts \cup ScalarLifts
Lifts(imp) ==
    {inst \in ValueInsts :
        /\ inst.name \in LiftNames \/ inst \in ScalarLifts
        /\ inst.func # None <=> (~imp /\ inst.name # "I32Load")}
Lowers == {inst \in ValueInsts : inst.name \notin LiftNames} \ ScalarLifts

\* The functions of an interface, by what the ABI walker does for each: a
\* function without arguments and results, one that takes a value and one
\* that returns a value.  A guest import lifts its arguments and lowers
\* its results, a guest export lowers its arguments and lifts its results.
TheCall(imp) ==
    <<Emit(IF imp THEN Plain("CallInterface") ELSE Plain("CallWasm"))>>
Bodies(imp) ==
    {TheCall(imp)}
    \cup {IF imp THEN Steps(inst) \o TheCall(imp)
          ELSE TheCall(imp) \o Steps(inst) : inst \in Lifts(imp)}
    \cup {IF imp THEN TheCall(imp) \o Steps(inst)
          ELSE Steps(inst) \o TheCall(imp) : inst \in Lowers}

\* iface.call(variant, lift_lower, func, &mut f)
RECURSIVE call(_, _)
call(fb, body) ==
    IF body = <<>> \/ fb.op \in {"unimplemented", "panic"} THEN fb
    ELSE LET s == Head(body) IN
         call(CASE s.kind = "push_block" -> push_block(fb)
                [] s.kind = "finish_block" -> finish_block(fb, s.operands)
                [] s.kind = "emit" -> emit(fb, s.inst),
              Tail(body))

\* FunctionBindgen::new(self, params)
NewFunction(w) ==
    [FunctionBindgen EXCEPT !.needs = w.needs, !.async_ = w.async_]

\* What compiling a function leaves: the generator, the closure or method
\* written (None when the generator panicked) and the helpers its text
\* names.
Compiled(w, text, refs) == [w |-> w, text |-> text, refs |-> refs]
Text(header, src) == [header |-> header, src |-> src]

\* fn export(&mut self, iface: &Interface, func: &Function): the closure
\* of a guest import.
export(w, body) ==
    LET f == call(NewFunction(w), body)
        needs_memory ==
            w.needs_memory \/ f.needs_memory \/ f.needs_borrow_checker
        header ==
            {"let func_" \o name : name \in f.needs_functions}
            \cup (IF needs_memory THEN {"let _memory"} ELSE {})
            \cup (IF f.needs_borrow_checker THEN {"let mut _bc"} ELSE {})
            \cup (IF w.all_needed_handles THEN {"let tables"} ELSE {})
    IN  IF f.op \in {"unimplemented", "panic"}
        THEN Compiled([w EXCEPT !.needs = f.needs], None, f.refs)
        ELSE Compiled([w EXCEPT
                          !.needs = f.needs,
                          !.needs_functions = @ \cup f.needs_functions,
                          !.needs_memory = needs_memory],
                      Some(Text(header, f.src)), f.refs)

\* fn import(&mut self, iface: &Interface, func: &Function): the method
\* that calls a guest export; assert!(!needs_borrow_checker).
import(w, body) ==
    LET f == call(NewFunction(w), body)
        header ==
            {"let func_" \o name : name \in f.needs_functions}
            \cup (IF f.needs_memory THEN {"let _memory"} ELSE {})
    IN  IF f.op \in {"unimplemented", "panic"} \/ f.needs_borrow_checker
        THEN Compiled([w EXCEPT !.needs = f.needs], None, f.refs)
        ELSE Compiled([w EXCEPT !.needs = f.needs],
                      Some(Text(header, f.src)), f.refs)

\* fn print_intrinsics(&mut self): the helpers imported.
print_intrinsics(w) == {helper \in Helpers : helper \in w.needs}

\* An interface being compiled: the generator, history of the function
\* compiled last (its steps, its text, and the text a generator that has
\* compiled nothing else writes for it), whether a step has cleared a
\* needs_* flag, the helpers the text written so far names, and the
\* helpers imported once print_intrinsics has run.
Compiling(w) ==
    [stage |-> "interface", w |-> w, body |-> None, text |-> None,
     alone |-> None, cleared |-> FALSE, refs |-> {}, imports |-> None]

InterfaceInit ==
    /\ IdleSlab
    /\ in_import \in BOOLEAN
    /\ pc = "host"
    /\ IdleCall
    /\ IdleExport
    /\ IdleMem
    /\ conv = NoConv
    /\ layout = NoLayout
    /\ deps = NoDeps
    /\ gen = Compiling(Wasmer(Async("None", {}), in_import))

\* The generator a function is compiled by when it is the first of its
\* interface.
Fresh(w) == Wasmer(w.async_, w.all_needed_handles)

\* The next function of the interface is compiled: by export when the
\* bindings implement guest imports, by import otherwise.
Compile(body) ==
    /\ gen.stage = "interface"
    /\ body \in Bodies(in_import)
    /\ LET c == IF in_import THEN export(gen.w, body)
                ELSE import(gen.w, body)
           a == IF in_import THEN export(Fresh(gen.w), body)
                ELSE import(Fresh(gen.w), body)
       IN  gen' = [gen EXCEPT
                      !.w = c.w,
                      !.body = Some(body),
                      !.text = c.text,
                      !.alone = a.text,
                      !.cleared = @ \/ ~(gen.w.needs \subseteq c.w.needs),
                      !.refs = gen.refs \cup c.refs]
    /\ UNCHANGED in_import
    /\ GenIdle

\* fn print_borrowed_slice(..): the type of a list parameter is printed;
\* the elements of a guest import's list are wrapped in Le<..> when their
\* alignment is more than one.
print_borrowed_slice(aligned) ==
    /\ gen.stage = "interface"
    /\ gen' = [gen EXCEPT
                  !.w.needs = IF aligned /\ in_import THEN @ \cup {"Le"}
                              ELSE @,
                  !.refs = IF aligned /\ in_import THEN @ \cup {"Le"}
                           ELSE @,
                  !.body = None, !.text = None, !.alone = None]
    /\ UNCHANGED in_import
    /\ GenIdle

\* finish_one: print_intrinsics writes the imports of the helpers.
PrintIntrinsics ==
    /\ gen.stage = "interface"
    /\ gen' = [gen EXCEPT
                  !.stage = "printed",
                  !.imports = Some(print_intrinsics(gen.w)),
                  !.body = None, !.text = None, !.alone = None]
    /\ UNCHANGED in_import
    /\ GenIdle

InterfaceNext ==
    \/ \E body \in Bodies(TRUE) \cup Bodies(FALSE) : Compile(body)
    \/ \E aligned \in BOOLEAN : print_borrowed_slice(aligned)
    \/ PrintIntrinsics

InterfaceSpec == InterfaceInit /\ [][InterfaceNext]_vars

LayoutNext ==
    \/ ListOf
    \/ OptionOf
    \/ \E s \in Siblings : \E first \in BOOLEAN : ExpectedOf(s, first)
    \/ \E s \in Siblings : \E first \in BOOLEAN : VariantOf(s, first)
    \/ \E s \in Siblings : \E place \in 1 .. 3 : RecordOf(s, place)
    \/ \E n \in ArgCounts : \E p \in Siblings : ExportReturning(n, p)
    \/ \E n \in ArgCounts : \E r \in Siblings : ExportTaking(n, r)

LayoutSpec == LayoutInit /\ [][LayoutNext]_vars

\* ------------------------------------------------------------------ C11

\* The range of each narrow type, as the interface language declares it.
RangeOf(ty) ==
    CASE ty = "u8" -> 0 .. 255
      [] ty = "s8" -> (0 - 128) .. 127
      [] ty = "u16" -> 0 .. 65535
      [] ty = "s16" -> (0 - 32768) .. 32767

LiftedInt == conv.stage = "lifted" /\ conv.ty \in IntTypes

\* C11: lifting a core integer to u8, s8, u16 or s16 gives the same number
\* exactly when the number is in the type's range and fails with the
\* integer-range error otherwise, never a truncated value; and a native
\* value that was lowered lifts back to itself.
C11_CheckedNarrowing ==
    LiftedInt =>
        /\ conv.core[1] \in RangeOf(conv.ty) =>
               conv.native = conv.core /\ conv.err = "none"
        /\ conv.core[1] \notin RangeOf(conv.ty) =>
               conv.native = None /\ conv.err = BadInt
        /\ conv.orig # None => conv.native = conv.orig

\* 256 was refused as a u8.
C11_Witness ==
    /\ LiftedInt
    /\ conv.ty = "u8"
    /\ conv.core = Some(256)
    /\ conv.native = None
    /\ conv.err = BadInt

\* ------------------------------------------------------------------ C12

LiftedChar == conv.stage = "lifted" /\ conv.ty = "char"

\* The core integer read as the unsigned number it carries is a Unicode
\* scalar value: a negative i32 stands for a number above 0x7fffffff.
ScalarValue(i) == i >= 0 /\ i <= 1114111 /\ ~(i >= 55296 /\ i <= 57343)

InvalidCharErrors == {InvalidChar, NotAValidChar, ChrOutOfRange}

\* C12: a core integer lifts to a char exactly when it is at most 0x10FFFF
\* and outside the surrogates 0xD800..0xDFFF, to the char of that code
\* point; any other integer fails with an invalid-character error.
C12_CharValidated ==
    LiftedChar =>
        IF ScalarValue(conv.core[1])
        THEN conv.native = Some(Char(conv.core[1])) /\ conv.err = "none"
        ELSE conv.native = None /\ conv.err \in InvalidCharErrors

\* _validate_guest_char refused the surrogate 0xD800.
C12_Witness ==
    /\ LiftedChar
    /\ conv.core = Some(55296)
    /\ conv.native = None
    /\ conv.err = NotAValidChar

\* ------------------------------------------------------------------ C13

LiftedCase == conv.stage = "lifted" /\ conv.ty \in CaseTypes

\* The cases each type declares, in order, and the case count.
DeclaredCases(ty) ==
    CASE ty = "bool" -> <<"false", "true">>
      [] ty = "option" -> <<"None", "Some">>
      [] ty = "expected" -> <<"Ok", "Err">>
      [] ty = "E" -> <<"A", "B", "C">>
      [] ty = "V" -> <<"A", "B", "C">>
      [] ty = "U" -> <<"V0", "V1">>

\* The payload the case d of ty carries when the slot holds s.
DeclaredPayload(ty, d, s) ==
    CASE ty \in {"bool", "E"} -> None
      [] ty = "option" -> IF d = 1 THEN Some([top |-> FALSE, low |-> s]) ELSE None
      [] ty = "expected" ->
             IF d = 0 THEN Some([top |-> FALSE, low |-> s]) ELSE Some(Unit)
      [] ty = "V" -> IF d = 1 THEN Some([top |-> FALSE, low |-> s]) ELSE None
      [] ty = "U" -> Some([top |-> FALSE, low |-> s])

InvalidDiscriminant(ty) == "invalid discriminant for " \o ty

\* C13: a discriminant d lifted for a type of n cases selects case number
\* d with its lifted payload when 0 <= d < n and fails with the
\* invalid-discriminant error otherwise; expected<u32, unit> lifts (0, 42)
\* to Ok(42), (1, any slot) to Err(()) and refuses 2.
C13_DiscriminantValidated ==
    LiftedCase =>
        LET d == conv.core[1]
            s == conv.core[2]
            n == Len(DeclaredCases(conv.ty))
        IN  /\ (0 <= d /\ d < n) =>
                   /\ conv.err = "none"
                   /\ conv.native =
                          Some([name |-> DeclaredCases(conv.ty)[d + 1],
                                payload |-> DeclaredPayload(conv.ty, d, s)])
            /\ ~(0 <= d /\ d < n) =>
                   /\ conv.native = None
                   /\ conv.err = InvalidDiscriminant(conv.ty)
            /\ (conv.ty = "expected" /\ d = 1) =>
                   conv.native = Some([name |-> "Err", payload |-> Some(Unit)])

\* expected<u32, unit> was handed the discriminant 2 and refused it.
C13_Witness ==
    /\ LiftedCase
    /\ conv.ty = "expected"
    /\ conv.core[1] = 2
    /\ conv.native = None
    /\ conv.err = "invalid discriminant for expected"

\* ------------------------------------------------------------------ C14

FlagsCrossing == conv.stage \in {"lowered", "lifted"} /\ conv.ty \in FlagTypes

\* The flags each type declares and the core integers its storage takes.
DeclaredFlags(ty) ==
    CASE ty = "flags3" -> 0 .. 2
      [] ty = "flags32" -> 0 .. 31
      [] ty = "flags40" -> 0 .. 39
      [] ty = "flags64" -> 0 .. 63
StorageWords(ty) == IF ty \in {"flags3", "flags32"} THEN 1 ELSE 2

\* The flags the core integers carry: bit b of word i is flag 32i + b.
Carried(ops) == UNION {{32 * (i - 1) + b : b \in ops[i]} : i \in 1 .. Len(ops)}

\* C14: a flags value lowers to one core integer per 32 bits of storage,
\* word i carrying the flags 32i to 32i+31; the lift rejects every value
\* with a bit outside the declared flags, and lifting the lowered words
\* of a valid flag set, bit 31 of a word included, gives that flag set.
C14_FlagsRoundTrip ==
    FlagsCrossing =>
        /\ conv.orig # None =>
               /\ Len(conv.core) = StorageWords(conv.ty)
               /\ Carried(conv.core) = conv.orig[1]
        /\ conv.stage = "lifted" =>
               /\ ~(Carried(conv.core) \subseteq DeclaredFlags(conv.ty)) =>
                      conv.native = None /\ conv.err = InvalidFlags
               /\ conv.orig # None => conv.native = conv.orig

\* ------------------------------------------------------------------ C15

\* The functions of the interface whose result is an expected with a
\* declared, named error type: baz returns expected<u32, errno> and quux
\* the named expected<u32, errno>. Of the others foo returns nothing, bar
\* and qux have an error type without a declaration of its own, and the
\* result of corge is a synonym, which is not itself an expected.
ToDeclaredError == {"baz", "quux"}

ClassOf(custom_error, name) ==
    IF ~custom_error THEN "Normal"
    ELSE IF name \in ToDeclaredError THEN "CustomToError"
    ELSE "CustomToTrap"

MaySuspend == \E i \in 1 .. Len(InterfaceFuncs) :
                  includes(gen.opts.async_, InterfaceFuncs[i].name)

\* The entry points recorded for the interface, closures and wrappers.
EntryPoints ==
    {gen.guest_imports[i] : i \in 1 .. Len(gen.guest_imports)}
        \cup {gen.guest_exports[i] : i \in 1 .. Len(gen.guest_exports)}

\* C16: whether the entry points of an interface are asynchronous is one
\* decision for the whole interface: all of them are when some function
\* may suspend, none is when none may, and no two of them differ.
C16_UniformAsync ==
    /\ \A e \in EntryPoints : e.is_async = MaySuspend
    /\ \A e1 \in EntryPoints : \A e2 \in EntryPoints :
           e1.is_async = e2.is_async

\* ------------------------------------------------------------------ C17

\* The marshaling of each side: the ABI and the mode of a closure that
\* implements a guest import, and of a wrapper that calls a guest export.
ClosureSide == [abi |-> "GuestImport", mode |-> "LiftArgsLowerResults"]
WrapperSide == [abi |-> "GuestExport", mode |-> "LowerArgsLiftResults"]

SideOf(body) == [abi |-> body.abi, mode |-> body.mode]

\* C17: every closure for a guest import is compiled with the GuestImport
\* ABI and lift-arguments/lower-results, every wrapper of a guest export
\* with the GuestExport ABI and lower-arguments/lift-results, and the mode
\* lift_lower reports while a function is compiled is the mode the emitter
\* was handed for it.
C17_OneModePerSide ==
    /\ \A i \in 1 .. Len(gen.guest_imports) :
           /\ SideOf(gen.guest_imports[i].body) = ClosureSide
           /\ gen.guest_imports[i].body.lift_lower =
                  Some(gen.guest_imports[i].body.mode)
    /\ \A i \in 1 .. Len(gen.guest_exports) :
           /\ SideOf(gen.guest_exports[i].body) = WrapperSide
           /\ gen.guest_exports[i].body.lift_lower =
                  Some(gen.guest_exports[i].body.mode)
    /\ gen.stage = "body" =>
           /\ lift_lower(in_import) = gen.body.mode
           /\ gen.body.abi = abi_variant(gen.dir)
           /\ gen.body.lift_lower \in {None, Some(gen.body.mode)}

\* A wrapper of a guest export has been compiled: the emitter was handed
\* lower-arguments/lift-results and lift_lower said the same.
C17_Witness ==
    /\ gen.stage = "functions"
    /\ ~in_import
    /\ Len(gen.guest_exports) >= 1
    /\ gen.guest_exports[1].body.abi = "GuestExport"
    /\ gen.guest_exports[1].body.mode = "LowerArgsLiftResults"
    /\ gen.guest_exports[1].body.lift_lower = Some("LowerArgsLiftResults")

\* ------------------------------------------------------------------ C18

JustFinished == gen.stage = "body" /\ gen.f.op = "finish_block"

\* The strings of a buffer or of a fragment.
StringsOf(src) == {src[i] : i \in 1 .. Len(src)}

LiftedLowered == last.op \in {"lift of lowered", "ListCanonLift of lowered"}

\* C19: a list of elements of an all-bits-valid type, of any length from
\* zero up, that was lowered into the memory lifts back from the returned
\* pointer and length, out of the same memory, as the list it was.
C19_CanonRoundTrip ==
    LiftedLowered => last.ok /\ last.out = last.val

\* Two 2-byte elements went through the Python helpers at address 1 and
\* came back.
C19_Witness ==
    /\ last.op = "lift of lowered"
    /\ last.ok
    /\ last.idx = 1
    /\ last.size = 2
    /\ last.val = Some(ListBytes(2, 2))
    /\ last.out = last.val

\* ------------------------------------------------------------------ C20

\* The i-th (from 1) address of a list at ptr.
ElemAddr(ptr, size, i) == ptr + (i - 1) * size

\* C20: general list lowering allocates len * element_size bytes at the
\* element's alignment, lowers element i at pointer + i * element_size and
\* returns (pointer, len); general list lifting runs the element block
\* `length` times, reads element i from pointer + i * element_size and
\* yields the elements in memory order; for every length and element size
\* of the word's width, the arithmetic never giving a wrong address.
C20_ListAddressing ==
    /\ last.op = "ListLower" =>
        /\ ~last.panic
        /\ last.request =
               Some([size |-> last.n * last.size, align |-> last.size])
        /\ \A k \in DOMAIN last.addrs :
               last.addrs[k] = ElemAddr(last.ptr, last.size, k)
        /\ last.ok =>
            /\ Len(last.addrs) = last.n
            /\ last.ret = Some(<<last.ptr, WrapI32(last.n)>>)
    /\ last.op = "ListLift" =>
        /\ ~last.panic
        /\ \A k \in DOMAIN last.addrs :
               last.addrs[k] = ElemAddr(last.ptr, last.size, k)
        /\ last.ok =>
            /\ Len(last.addrs) = Mask32(last.n)
            /\ last.ret =
                   Some([k \in 1 .. Mask32(last.n) |->
                            BytesAt(mem, ElemAddr(last.ptr, last.size, k),
                                    last.size)])

\* What holds of the code: the same, for the lists whose length is not
\* negative as an i32 and whose size in bytes fits one.
C20_WithinI32 ==
    (last.op \in {"ListLower", "ListLift"}
        /\ last.n >= 0 /\ last.n * last.size < Half)
    => C20_ListAddressing

\* ------------------------------------------------------------------ C21

Exported == layout.stage = "signed"
TheFunc == layout.func[1]
TheSig == layout.sig[1]

\* The flattened scalars of all parameters of f, in order.
FlatParams(f) == concat([i \in DOMAIN f.params |-> flatten(f.params[i])], 1)

\* A result of more than one core value is written behind a pointer the
\* caller passes as the last parameter, and nothing is returned; any other
\* result is returned as its flattening.
ResultBehindPointer ==
    IF Len(flatten(TheFunc.result)) > 1
    THEN /\ TheSig.results = <<>>
         /\ TheSig.retptr
         /\ Len(TheSig.params) >= 1
         /\ TheSig.params[Len(TheSig.params)] = "i32"
    ELSE /\ TheSig.results = flatten(TheFunc.result)
         /\ ~TheSig.retptr

\* The parameters of the signature, the output pointer left out.
PassedParams ==
    IF TheSig.retptr
    THEN SubSeq(TheSig.params, 1, Len(TheSig.params) - 1)
    ELSE TheSig.params

PowersOfTwo == {Pow2(k) : k \in 0 .. 5}
IsPowerOfTwo(n) == n \in PowersOfTwo

WellSized(sa) ==
    /\ sa.size >= 0
    /\ sa.size % sa.align = 0
    /\ IsPowerOfTwo(sa.align)

TypeAtHand == layout.stage # "idle"

\* C22: the size of every type is a non-negative multiple of its
\* alignment and the alignment is a power of two, for every composition of
\* the constructors, records with zero-size fields and variants whose
\* cases differ in alignment included.
C22_SizeMultipleOfAlign ==
    TypeAtHand =>
        /\ WellSized(layout.sizes)
        /\ \A i \in DOMAIN layout.members : WellSized(layout.members[i])

\* A variant of a record with zero-size fields and a 64-bit number: its
\* cases differ in alignment, and 8 + 4 bytes are rounded up to 16.
C22_Witness ==
    /\ TypeAtHand
    /\ layout.ty = TVariant(<<TRecord(<<TUnit, TChar, TUnit>>), TInt(8)>>)
    /\ layout.members[1] = SizeAlign(4, 4)
    /\ layout.sizes = SizeAlign(16, 8)

\* ------------------------------------------------------------------ C23

\* The least multiple of a that is not below x.
IsNextMultiple(y, x, a) == y % a = 0 /\ y >= x /\ y - x < a

\* Where field i of the record at hand begins and ends.
FieldSizes == layout.members
FieldAt(i) == layout.offsets[i]
FieldEnd(i) == IF i = 0 THEN 0 ELSE FieldAt(i) + FieldSizes[i].size

\* A list or a string in memory: a pointer and a length of four bytes.
PointerLength == TRecord(<<TInt(4), TInt(4)>>)

\* C23: a record lays its fields out in declaration order, each at the next
\* offset that is a multiple of its own alignment; its alignment is the
\* largest field alignment and its size is rounded up to it; a list or
\* string field takes 8 bytes at alignment 4, pointer at 0 and length at 4,
\* so record{a: u32, b: string} has alignment 4 and size 12.
C23_RecordLayout ==
    /\ (TypeAtHand /\ layout.ty.kind = "record") =>
        LET n == Len(layout.ty.args) IN
        /\ Len(layout.offsets) = n
        /\ \A i \in 1 .. n :
               IsNextMultiple(FieldAt(i), FieldEnd(i - 1),
                              FieldSizes[i].align)
        /\ \A i \in 1 .. n : layout.sizes.align >= FieldSizes[i].align
        /\ \E i \in 1 .. n : layout.sizes.align = FieldSizes[i].align
        /\ IsNextMultiple(layout.sizes.size, FieldEnd(n), layout.sizes.align)
    /\ (TypeAtHand /\ layout.ty.kind \in {"list", "string"}) =>
        /\ layout.sizes = SizeAlign(8, 4)
        /\ layout.sizes = SizeAlign(size_of(PointerLength),
                                    align_of(PointerLength))
        /\ field_offsets(PointerLength) = <<0, 4>>
    /\ (TypeAtHand /\ layout.ty = TRecord(<<TInt(4), TString>>)) =>
        /\ layout.sizes = SizeAlign(12, 4)
        /\ layout.offsets = <<0, 4>>

\* record{a: u32, b: string} was laid out.
C23_Witness ==
    /\ TypeAtHand
    /\ layout.ty = TRecord(<<TInt(4), TString>>)
    /\ layout.sizes = SizeAlign(12, 4)

\* ------------------------------------------------------------------ C24

\* The calls that returned, the last one included.
Returned ==
    deps.returned \cup
        (IF deps.call = None \/ deps.panicked THEN {} ELSE {deps.call[1]})

\* The items asked of a module by the calls in h, and whether one of them
\* asked for the whole module.
ItemsAsked(h, m) == {c[2][1] : c \in {x \in h : x[1] = m /\ x[2] # None}}
WholeAsked(h, m) == <<m, None>> \in h

\* The last call asks for the other kind of import than the calls before.
Mixes ==
    /\ deps.call # None
    /\ LET m == deps.call[1][1]
           name == deps.call[1][2]
       IN  IF name = None
           THEN ItemsAsked(deps.returned, m) # {}
           ELSE WholeAsked(deps.returned, m)

\* C24: pyimport records per module either a whole-module import or a set
\* of items: the record is a function of the set of calls made, whatever
\* their order and however often repeated; a repeated call changes nothing;
\* a whole-module import mixed with an item import of the same module, in
\* either order, fails an assertion and records nothing.
C24_ImportsAccumulate ==
    deps.stage = "deps" =>
        /\ \A m \in Modules :
               deps.pyimports[m] =
                   IF WholeAsked(Returned, m) THEN Some(None)
                   ELSE IF ItemsAsked(Returned, m) # {}
                   THEN Some(Some(ItemsAsked(Returned, m)))
                   ELSE None
        /\ \A m \in Modules :
               ~(WholeAsked(Returned, m) /\ ItemsAsked(Returned, m) # {})
        /\ (deps.call # None /\ deps.call[1] \in deps.returned) =>
               ~deps.panicked /\ deps.pyimports = deps.before
        /\ deps.panicked <=> Mixes
        /\ deps.panicked => deps.pyimports = deps.before

\* Three items of typing were imported, List twice, and then the whole of
\* typing was asked for: the assertion failed and the items are still there.
C24_Witness ==
    /\ deps.stage = "deps"
    /\ deps.call = Some(<<"typing", None>>)
    /\ deps.panicked
    /\ deps.pyimports["typing"] = Some(Some(Items))

\* Items of one module were imported in some order and one of them again.
C24_WitnessRepeat ==
    /\ deps.stage = "deps"
    /\ deps.call = Some(<<"typing", Some("List")>>)
    /\ <<"typing", Some("List")>> \in deps.returned
    /\ deps.pyimports["typing"] = Some(Some(Items))
    /\ deps.pyimports["collections"] = Some(None)


\* ------------------------------------------------------------------- C25

\* A function of the interface has just been compiled.
JustCompiled == gen.stage = "interface" /\ gen.body # None

\* C25: the code generated for a function depends only on the function and
\* the generator's options, not on the functions compiled before it: the
\* text written for it is the text a generator that has compiled nothing
\* else writes for the same function.
C25_IndependentOfPredecessors ==
    JustCompiled => gen.text = gen.alone

\* C25, for the methods that call guest exports: import writes the
\* `let _memory` line from the function's own needs_memory.
C25_MethodsIndependent ==
    (JustCompiled /\ ~in_import) => gen.text = gen.alone


\* ------------------------------------------------------------------- C26

\* A branching instruction has just been written.
Branched == gen.stage = "emit" /\ gen.just # None /\ gen.f.op # "unimplemented"

\* The match or loop the instruction made: the lifts of variant, union,
\* option and expected return it, the other instructions write it.
Returned4 == {"VariantLift", "UnionLift", "OptionLift", "ExpectedLift"}
LastOf(src) ==
    src[CHOOSE i \in 1 .. Len(src) :
            /\ src[i].arms # <<>>
            /\ \A j \in (i + 1) .. Len(src) : src[j].arms = <<>>]
TheMatch ==
    IF gen.just[1].inst.name \in Returned4
    THEN gen.f.results[1]
    ELSE LastOf(gen.f.src)

\* How many fragments each instruction is to take.
Takes(inst) ==
    CASE inst.name \in {"VariantLower", "VariantLift", "UnionLower",
                        "UnionLift"} -> Len(inst.cases)
      [] inst.name \in {"OptionLower", "OptionLift", "ExpectedLower",
                        "ExpectedLift"} -> 2
      [] inst.name \in {"ListLower", "ListLift"} -> 1

\* C26: each branching instruction consumes exactly the fragments of its
\* own cases and pairs them with the cases in declaration order: variant
\* and union take the last cases.len() fragments, fragment i going to case
\* i; option takes two, the first finished for none and the second for
\* some; expected takes two, the first for ok and the second for err; list
\* lower and lift take one.  Afterwards as many fragments are pending as
\* before the cases were opened, however the constructors nest.
C26_BranchesPairCases ==
    Branched =>
        /\ gen.f.op # "panic"
        /\ LET c == gen.just[1]
               arms == TheMatch.arms
           IN
            /\ Len(arms) = Takes(c.inst)
            /\ Len(c.made) = Takes(c.inst)
            /\ \A i \in 1 .. Len(arms) :
                   /\ arms[i].case = c.inst.cases[i]
                   /\ arms[i].block = c.made[i]
            /\ Len(gen.f.blocks) = c.depth

\* An option was lowered inside a case of a variant that is itself not the
\* first constructor of the function: its two fragments went to none and
\* some while the fragments of the variant's finished cases stayed pending.
C26_Witness ==
    /\ Branched
    /\ gen.just[1].inst.name = "OptionLower"
    /\ gen.just[1].depth >= 1
    /\ Len(gen.work) = 1
    /\ Top.inst.name = "VariantLower"
    /\ TheMatch.arms[1].case = "none"
    /\ TheMatch.arms[2].case = "some"
    /\ TheMatch.arms[1].block # TheMatch.arms[2].block


\* ------------------------------------------------------------------- C27

\* The references to inner resource r that exist outside the resource slab:
\* the occupied outer indices resolving to r and the owned handles the host
\* holds.
Holders(r) == Cardinality(OuterRefs(ExportTables, r)) + host_handles[r]

\* C27: for every guest-exported resource the inner reference count equals
\* the number of live index-slab entries that map to it plus the number of
\* owned handles to it the host holds, after any sequence of resource_new,
\* resource_clone, resource_get, resource_drop, owned lifts, borrowed lowers
\* and host drops.
C27_RefCountMatchesHolders ==
    \A r \in ResIdx : RefCnt(resource_slab, r) = Holders(r)

\* A borrowed lower has just given the guest a second reference to a
\* resource the host owns.
C27_Witness ==
    /\ last.op = "export_call" /\ last.ok
    /\ frame.fn.borrows
    /\ \E r \in ResIdx :
           /\ host_handles[r] = 1
           /\ Cardinality(OuterRefs(ExportTables, r)) = 1
           /\ RefCnt(resource_slab, r) = 2


\* ------------------------------------------------------------------- C28

\* The slots of s, and those that hold no value.
Slots(s) == 0 .. (Len(s.list) - 1)
FreeSlots(s) == {i \in Slots(s) : s.list[i + 1].val = None}

\* The slots the free list visits from `at` on, in order, following at most
\* `fuel` links; the walk stops at the first link that is not a slot.
RECURSIVE FreeChain(_, _, _)
FreeChain(s, at, fuel) ==
    IF at \notin Slots(s) \/ fuel = 0 THEN <<>>
    ELSE <<at>> \o FreeChain(s, s.list[at + 1].next, fuel - 1)

\* The link the walk from head stops at.
ChainEnd(s) ==
    LET chain == FreeChain(s, s.head, Len(s.list) + 1) IN
    IF chain = <<>> THEN s.head ELSE s.list[chain[Len(chain)] + 1].next

OnFreeList(s) ==
    LET chain == FreeChain(s, s.head, Len(s.list) + 1) IN
    {chain[k] : k \in 1 .. Len(chain)}

\* C28: after any sequence of insert and remove the free list is well
\* formed: head is at most the length; following the next links from head
\* visits every free slot exactly once and ends at the length; every occupied
\* slot has next = -1 and is not on the free list.  Hence an insert returns
\* an index that was not occupied and that lies within the slot array.
C28_FreeListWellFormed ==
    /\ slab.head <= Len(slab.list)
    /\ LET chain == FreeChain(slab, slab.head, Len(slab.list) + 1) IN
       /\ Len(chain) = Cardinality(FreeSlots(slab))
       /\ OnFreeList(slab) = FreeSlots(slab)
       /\ ChainEnd(slab) = Len(slab.list)
    /\ \A i \in Slots(slab) \ FreeSlots(slab) :
           /\ slab.list[i + 1].next = -1
           /\ i \notin OnFreeList(slab)
    /\ (last.op = "insert" /\ last.ok) =>
           /\ ~SlabGet(pre.slab, last.ret).ok
           /\ last.ret \in Slots(slab)


\* ------------------------------------------------------------------- C29

\* C29: every runtime helper the generated code names has its needs_* flag
\* set by the time print_intrinsics runs, so that its import is written,
\* whatever instructions and functions were compiled; and a flag that was
\* set is never cleared.
C29_HelpersImported ==
    /\ gen.stage = "printed" => gen.refs \subseteq gen.imports[1]
    /\ gen.stage \in {"interface", "printed"} => ~gen.cleared

\* C29 for every helper but invalid_variant.
C29_OtherHelpersImported ==
    /\ gen.stage = "printed" =>
           (gen.refs \ {"invalid_variant"}) \subseteq gen.imports[1]
    /\ gen.stage \in {"interface", "printed"} => ~gen.cleared


\* ------------------------------------------------------------------- C30

\* The emitter has written a memory access into the closure of a guest
\* import.
Accessed == gen.stage = "closure" /\ in_import /\ gen.f.access # None

\* The definitions of caller_memory in a buffer.
Definitions(src) ==
    {i \in 1 .. Len(src) : src[i].what = "let caller_memory"}

\* C30: in the closure of a guest import, memory accessed before the host
\* call goes through _bc and memory accessed after it through
\* caller_memory; and every use of caller_memory is preceded, in the same
\* or an enclosing block, by a definition of caller_memory with no wasm
\* call, intrinsic call, block end or loop-element start in between.
C30_CallerMemoryDefined ==
    Accessed =>
        LET a == gen.f.access[1] IN
        /\ ~a.after_call => a.memory = "_bc"
        /\ a.after_call => a.memory = "caller_memory"
        /\ a.memory = "caller_memory" => a.defined

\* Inside a block, after an intrinsic call there, caller_memory was defined
\* again although the enclosing scope holds a definition of its own.
C30_Witness ==
    /\ Accessed
    /\ gen.f.access[1].memory = "caller_memory"
    /\ Len(gen.f.block_storage) = 1
    /\ Definitions(gen.f.block_storage[1]) # {}
    /\ Definitions(gen.f.src) # {}
    /\ gen.f.defs = <<FALSE, TRUE>>
    /\ gen.f.op = "push_str"

====
